---------------------------- MODULE Spec2Model ----------------------------
(***************************************************************************)
(* A model of search_group/search_engine.py (SearchEngine, v3.6.0):        *)
(*   - _validate_date_components, the range and calendar check of a date;  *)
(*   - _extract_content_date_for_metadata, the md_date extraction;         *)
(*   - _validate_content, the four-layer content validation;               *)
(*   - search_comprehensive, the orchestration loop.                       *)
(* Each part has a specification of its own (SpecDateValid, SpecDate,      *)
(* SpecValidate, SpecSearch); a specification leaves the variables of the  *)
(* other parts at their idle values.                                       *)
(***************************************************************************)
EXTENDS Integers, Sequences, FiniteSets, TLC

VARIABLES
    dvYear, dvMonth, dvDay,   \* arguments of _validate_date_components
    dvResult,                 \* its return value (FALSE before the call)
    dvPc                      \* "idle" | "call" | "done"

dvVars == <<dvYear, dvMonth, dvDay, dvResult, dvPc>>

VARIABLES
    vContentIsStr,   \* whether the content argument is a string at all
    vContent,        \* arguments of _validate_content
    vSymbol,
    vName,
    vVerdict,        \* the dictionary it returns (NoVerdict before the call)
    vRaised,         \* history: an exception was raised inside the try statement
    vPc              \* "idle" | "call" | "done"

vVars == <<vContentIsStr, vContent, vSymbol, vName, vVerdict, vRaised, vPc>>

VARIABLES
    deContent,       \* argument of _extract_content_date_for_metadata
    deCurrentYear,   \* datetime.now().year during the call
    deResult,        \* the date returned, <<year, month, day>>; <<>> is ""
    deFoundDates,    \* history: found_dates as the cascade pass built it
    dePc             \* "idle" | "call" | "done"

deVars == <<deContent, deCurrentYear, deResult, deFoundDates, dePc>>

VARIABLES
    sCount,          \* arguments of search_comprehensive
    sMinQuality,
    sTargetCount,    \* target_count
    sResults,        \* results
    sCategory,       \* position of the two loops over all_patterns
    sPattern,
    sItems,          \* search_results['items'] of the query in progress
    sItem,           \* position of the loop over the items
    sReturned,       \* final_results
    sOffered,        \* history: the urls of the hits received that qualify
    sFetched,        \* history: some page has been fetched
    sPc              \* "idle" | "call" | "search" | "items" | "return" | "done",
                     \* "raised" when an exception leaves search_comprehensive

sVars == <<sCount, sMinQuality, sTargetCount, sResults, sCategory, sPattern,
           sItems, sItem, sReturned, sOffered, sFetched, sPc>>

VARIABLES
    stFiles,     \* the output directory: what is stored under each filename
    stCalls,     \* number of save_md_file calls made one after the other
    stLast,      \* history: arguments and outcome of the last of these calls
    stFirst,     \* history: the document of the first successful write of a name
    stWrites,    \* history: how many times each name was opened for writing
    stCaller     \* the callers that run save_md_file side by side

stVars == <<stFiles, stCalls, stLast, stFirst, stWrites, stCaller>>

vars == <<dvVars, vVars, deVars, sVars, stVars>>

(***************************************************************************)
(* _validate_date_components                                               *)
(***************************************************************************)

\* A date component as the caller passes it: a string that int() converts to
\* val, or (numeric = FALSE) one on which int() raises ValueError.
Num(n) == [numeric |-> TRUE, val |-> n]
NaN == [numeric |-> FALSE, val |-> 0]

MinYear == 2020
MaxYear == 2030
MaxMonth == 12
MaxDay == 31

\* How far beyond the accepted ranges the arguments are drawn.
ProbeMargin == 1

DvIdle ==
    /\ dvYear = NaN /\ dvMonth = NaN /\ dvDay = NaN
    /\ dvResult = FALSE /\ dvPc = "idle"

\* calendar.isleap, as datetime's constructor uses it.
IsLeap(y) == (y % 4 = 0) /\ ((y % 100 # 0) \/ (y % 400 = 0))

\* datetime's _days_in_month.
DaysInMonth(y, m) ==
    IF m = 2 THEN (IF IsLeap(y) THEN 29 ELSE 28)
    ELSE IF m \in {4, 6, 9, 11} THEN 30 ELSE 31

\* datetime(y, m, d) constructs (TRUE) or raises ValueError (FALSE).
DatetimeConstructs(y, m, d) ==
    /\ 1 <= y /\ y <= 9999
    /\ 1 <= m /\ m <= 12
    /\ 1 <= d /\ d <= DaysInMonth(y, m)

\* A variant that omits the datetime(y, m, d) construction.
ValidateDateComponentsNoCalendar(year, month, day) ==
    IF ~(year.numeric /\ month.numeric /\ day.numeric) THEN FALSE
    ELSE LET y == year.val  m == month.val  d == day.val IN
         IF ~(MinYear <= y /\ y <= MaxYear) THEN FALSE
         ELSE IF ~(1 <= m /\ m <= MaxMonth) THEN FALSE
         ELSE IF ~(1 <= d /\ d <= MaxDay) THEN FALSE
         ELSE TRUE

ValidateDateComponents(year, month, day) ==
    \* y, m, d = int(year), int(month), int(day); ValueError is caught
    IF ~(year.numeric /\ month.numeric /\ day.numeric) THEN FALSE
    ELSE LET y == year.val  m == month.val  d == day.val IN
         IF ~(MinYear <= y /\ y <= MaxYear) THEN FALSE
         ELSE IF ~(1 <= m /\ m <= MaxMonth) THEN FALSE
         ELSE IF ~(1 <= d /\ d <= MaxDay) THEN FALSE
         ELSE DatetimeConstructs(y, m, d)

DvYears == {Num(n) : n \in (MinYear - ProbeMargin)..(MaxYear + ProbeMargin)} \cup {NaN}
DvMonths == {Num(n) : n \in 0..(MaxMonth + ProbeMargin)} \cup {NaN}
DvDays == {Num(n) : n \in 0..(MaxDay + ProbeMargin)} \cup {NaN}

DvInit ==
    /\ dvYear \in DvYears
    /\ dvMonth \in DvMonths
    /\ dvDay \in DvDays
    /\ dvResult = FALSE
    /\ dvPc = "call"

DvValidate ==
    /\ dvPc = "call"
    /\ dvResult' = ValidateDateComponents(dvYear, dvMonth, dvDay)
    /\ dvPc' = "done"
    /\ UNCHANGED <<dvYear, dvMonth, dvDay>>

NextDateValid == DvValidate /\ UNCHANGED <<vVars, deVars, sVars, stVars>>

\* The calendar, written out for the years the function accepts.
C7_LeapYears == {2020, 2024, 2028}

C7_MonthLength(y, m) ==
    CASE m \in {1, 3, 5, 7, 8, 10, 12} -> 31
      [] m \in {4, 6, 9, 11} -> 30
      [] OTHER -> IF y \in C7_LeapYears THEN 29 ELSE 28

C7_RealDateInRange(year, month, day) ==
    /\ year.numeric /\ month.numeric /\ day.numeric
    /\ year.val \in 2020..2030
    /\ month.val \in 1..12
    /\ day.val \in 1..31
    /\ day.val <= C7_MonthLength(year.val, month.val)

\* C7: _validate_date_components(year, month, day) returns true exactly when
\* year is in [2020,2030], month in [1,12], day in [1,31] and the triple is a
\* real calendar date (leap years included), and false for every other
\* triple, non-numeric components included.
C7_DateValidation ==
    dvPc = "done" => (dvResult <=> C7_RealDateInRange(dvYear, dvMonth, dvDay))

\* 2024-02-29 has been validated and accepted.
C7_Witness ==
    /\ dvPc = "done"
    /\ dvYear = Num(2024) /\ dvMonth = Num(2) /\ dvDay = Num(29)
    /\ dvResult = TRUE

(***************************************************************************)
(* Page text.  A text is a sequence of lexemes; each lexeme stands for a   *)
(* fixed run of characters and a character offset is the sum of the        *)
(* lengths of the lexemes before it.  The lexemes are chosen so that every *)
(* literal of the program's regular expressions is a whole number of       *)
(* lexemes and cannot straddle two of them.                                *)
(***************************************************************************)

Lexemes ==
    { "TITLE_OPEN",     \* <title>
      "TITLE_CLOSE",    \* </title>
      "OG_OPEN",        \* <meta property="og:title" content="
      "QUOTE",          \* "
      "(", ")", "-", " ", ":",
      "2330", "2317",   \* four-digit company codes
      "TW", "tw",
      "Lianfa", "lianfa",   \* a one-word company name, as written and lower-cased
      "Keji", "keji",       \* a second word of a name
      "K", "k",             \* a word of one letter
      "DAIHAO",         \* 代號
      "TAIGU",          \* 台股
      "YUGU",           \* 預估
      "MUBIAOJIA",      \* 目標價
      "WEI",            \* 為 (or 是)
      "YUAN",           \* 元
      "SHENGZHI",       \* 升至
      "TIAO",           \* 調
      "x196", "x197" }  \* runs of 196 and of 197 letters x

\* The lexemes of the pages dates are extracted from.  A date lexeme is a
\* date as the page writes it: with dashes, with slashes, as year, month and
\* day in Chinese, or as digits only.
DashDates == { "2025-05-20", "2025-03-10", "2024-11-03", "2019-05-20", "2025-02-30" }
SlashDates == { "2026/1/15" }
CnDates == { "2024n11y03r" }           \* 2024年11月03日
CompactDates == { "20250520", "20241103" }
DateLex == DashDates \cup SlashDates \cup CnDates \cup CompactDates

DateWords ==
    { "STAR",           \* *
      "NL",             \* line feed
      "GENGXIN",        \* 更新:
      "BYLINE",         \* 鉅亨網新聞中心
      "CNYES",          \* cnyes.com
      "TIME",           \* 18:11
      "SECS",           \* :30
      "ZHOU",           \* 週
      "WDAY",           \* 二
      "AMPM",           \* 下午
      "META_PUB",       \* property="article:published_time" content="
      "META_PUBDATE",   \* name="pubdate" content="
      "LD_PUB",         \* "datePublished": "
      "YAML",           \* ---
      "x10", "x100" }   \* runs of 10 and of 100 letters x

\* The groups (year, month, day) of a date lexeme, as the strings matched.
DateGroups(t) ==
    CASE t \in {"2025-05-20", "20250520"} -> <<"2025", "05", "20">>
      [] t = "2025-03-10" -> <<"2025", "03", "10">>
      [] t \in {"2024-11-03", "2024n11y03r", "20241103"} -> <<"2024", "11", "03">>
      [] t = "2019-05-20" -> <<"2019", "05", "20">>
      [] t = "2025-02-30" -> <<"2025", "02", "30">>
      [] t = "2026/1/15" -> <<"2026", "1", "15">>

\* int() of a string of digits.
IntOf(str) ==
    CASE str = "2019" -> 2019 [] str = "2024" -> 2024 [] str = "2025" -> 2025
      [] str = "2026" -> 2026
      [] str = "0" -> 0
      [] str \in {"1", "01"} -> 1 [] str = "02" -> 2 [] str \in {"3", "03"} -> 3
      [] str = "05" -> 5 [] str = "10" -> 10 [] str = "11" -> 11
      [] str = "15" -> 15 [] str = "20" -> 20 [] str = "30" -> 30

\* Number of characters of a lexeme.
LexLen(t) ==
    CASE t \in DashDates -> 10
      [] t \in SlashDates -> 9
      [] t \in CnDates -> 11
      [] t \in CompactDates -> 8
      [] t \in {"STAR", "NL", "ZHOU", "WDAY"} -> 1
      [] t \in {"GENGXIN", "SECS", "YAML"} -> 3
      [] t = "BYLINE" -> 7
      [] t = "CNYES" -> 9
      [] t = "TIME" -> 5
      [] t = "AMPM" -> 2
      [] t = "META_PUB" -> 43
      [] t = "META_PUBDATE" -> 24
      [] t = "LD_PUB" -> 18
      [] t = "x10" -> 10
      [] t = "x100" -> 100
      [] t = "TITLE_OPEN" -> 7
      [] t = "TITLE_CLOSE" -> 8
      [] t = "OG_OPEN" -> 35
      [] t \in {"QUOTE", "(", ")", "-", " ", ":", "WEI", "YUAN", "TIAO"} -> 1
      [] t \in {"2330", "2317", "Keji", "keji"} -> 4
      [] t \in {"K", "k"} -> 1
      [] t \in {"TW", "tw", "DAIHAO", "TAIGU", "YUGU", "SHENGZHI"} -> 2
      [] t = "MUBIAOJIA" -> 3
      [] t \in {"Lianfa", "lianfa"} -> 6
      [] t = "x196" -> 196
      [] t = "x197" -> 197

\* Character classes of the lexemes.
DigitLex == {"2330", "2317"}                  \* every character is \d
SpaceLex == {" ", "NL"}                       \* \s
HasCloseParen == {")"}                        \* contains ")"
HasQuote == {"QUOTE", "OG_OPEN"}              \* contains " or '
\* first (last) character is not \w; CJK characters are \w in Python 3
NonWordFirst == {"TITLE_OPEN", "TITLE_CLOSE", "OG_OPEN", "QUOTE", "(", ")", "-", " ", ":"}
NonWordLast == NonWordFirst

\* A variant that leaves the case as it is.
LowerLexKeepsCase(t) == t

\* str.lower(), lexeme by lexeme.
LowerLex(t) ==
    CASE t = "TW" -> "tw"
      [] t = "Lianfa" -> "lianfa"
      [] t = "Keji" -> "keji"
      [] t = "K" -> "k"
      [] OTHER -> t

Lower(s) == [i \in 1..Len(s) |-> LowerLex(s[i])]

\* Offset of the first character of s[i].
RECURSIVE Offset(_, _)
Offset(s, i) == IF i <= 1 THEN 0 ELSE Offset(s, i - 1) + LexLen(s[i - 1])

\* Number of characters of s[i..j].
RECURSIVE SpanLen(_, _, _)
SpanLen(s, i, j) == IF j < i THEN 0 ELSE LexLen(s[j]) + SpanLen(s, i, j - 1)

(***************************************************************************)
(* Regular expressions, as far as the program uses them: a pattern is a    *)
(* sequence of elements,                                                   *)
(*   Lit(T)        one lexeme of T (a literal, or one character class),    *)
(*   Rep(T, lo, hi) a run of lexemes of T of lo..hi characters             *)
(*                 ([..]{0,20}, an optional character),                    *)
(*   Star(T), Plus(T)  [..]* and [..]+,                                    *)
(*   Bnd           \b.                                                     *)
(* Ends(pat, k, s, i) is the set of positions where a match of pat[k..]    *)
(* that starts at s[i] can end (the index after its last lexeme).          *)
(***************************************************************************)

Lit(T) == [kind |-> "lit", toks |-> T, lo |-> 1, hi |-> 1, open |-> FALSE]
Rep(T, lo, hi) == [kind |-> "rep", toks |-> T, lo |-> lo, hi |-> hi, open |-> FALSE]
Bnd == [kind |-> "bnd", toks |-> {}, lo |-> 0, hi |-> 0, open |-> FALSE]
\* [..]* and [..]+ : no upper limit
Star(T) == [kind |-> "rep", toks |-> T, lo |-> 0, hi |-> 0, open |-> TRUE]
Plus(T) == [kind |-> "rep", toks |-> T, lo |-> 1, hi |-> 0, open |-> TRUE]

\* The literal pattern of a string the program interpolates into a pattern.
LitSeq(w) == [i \in 1..Len(w) |-> Lit({w[i]})]

\* \b at position i of s: exactly one of the characters around it is \w.
WordBefore(s, i) == i > 1 /\ s[i - 1] \notin NonWordLast
WordAfter(s, i) == i <= Len(s) /\ s[i] \notin NonWordFirst
Boundary(s, i) == WordBefore(s, i) # WordAfter(s, i)

RepEnds(el, s, i) ==
    { j \in i..(Len(s) + 1) :
        /\ \A q \in i..(j - 1) : s[q] \in el.toks
        /\ SpanLen(s, i, j - 1) >= el.lo
        /\ (el.open \/ SpanLen(s, i, j - 1) <= el.hi) }

RECURSIVE Ends(_, _, _, _)
Ends(pat, k, s, i) ==
    IF k > Len(pat) THEN {i}
    ELSE LET el == pat[k] IN
         CASE el.kind = "lit" ->
                IF i <= Len(s) /\ s[i] \in el.toks
                THEN Ends(pat, k + 1, s, i + 1) ELSE {}
           [] el.kind = "rep" ->
                UNION { Ends(pat, k + 1, s, j) : j \in RepEnds(el, s, i) }
           [] el.kind = "bnd" ->
                IF Boundary(s, i) THEN Ends(pat, k + 1, s, i) ELSE {}

MatchesAt(pat, s, i) == Ends(pat, 1, s, i) # {}

\* re.search(pat, s) finds a match.
Search(pat, s) == \E i \in 1..(Len(s) + 1) : MatchesAt(pat, s, i)

\* re.finditer of a literal: the start positions of the matches, left to
\* right, each match starting at or after the end of the one before.
RECURSIVE FindIterFrom(_, _, _)
FindIterFrom(w, s, from) ==
    LET starts == { i \in from..(Len(s) + 1) : MatchesAt(LitSeq(w), s, i) } IN
    IF starts = {} \/ Len(w) = 0 THEN {}
    ELSE LET i == CHOOSE m \in starts : \A n \in starts : m <= n IN
         {i} \cup FindIterFrom(w, s, i + Len(w))

FindIter(w, s) == FindIterFrom(w, s, 1)

(***************************************************************************)
(* _extract_content_date_for_metadata                                      *)
(***************************************************************************)

\* Confidences are in tenths: 5.0 is 50.
BaseConfidence == 50
PriorityBonus0 == 60
PriorityBonus1 == 55
PriorityBonus2 == 50
PriorityBonusUpTo6 == 40
PriorityBonusRest == 20
TopTenthBonus == 20
TopThirdBonus == 10
ThisYearBonus == 15
LastYearBonus == 10
TrustedSourceBonus == 15
SecondarySourceBonus == 10

\* str.strip(): without the whitespace at both ends.
RECURSIVE Strip(_)
Strip(s) ==
    IF Len(s) = 0 THEN s
    ELSE IF s[1] \in SpaceLex THEN Strip(Tail(s))
    ELSE IF s[Len(s)] \in SpaceLex THEN Strip(SubSeq(s, 1, Len(s) - 1))
    ELSE s

\* A variant that searches the content as given.
GetContentKeepingYaml(content) == content

\* _get_content_without_yaml
GetContentWithoutYaml(content) ==
    IF Len(content) >= 1 /\ content[1] = "YAML"
    THEN LET ends == { j \in 2..Len(content) : content[j] = "YAML" } IN
         IF ends # {}
         THEN Strip(SubSeq(content, (CHOOSE m \in ends : \A n \in ends : m <= n) + 1,
                           Len(content)))
         ELSE content
    ELSE content

\* A pattern with the three date groups: what precedes the date, the forms
\* of date it takes, what follows.
DatePattern(pre, dates, post) == [pre |-> pre, dates |-> dates, post |-> post]

\* meta_patterns
MetaPatterns ==
    << DatePattern(<<Lit({"META_PUB"})>>, SlashDates, <<>>),
       DatePattern(<<Lit({"META_PUB"})>>, DashDates, <<>>),
       DatePattern(<<Lit({"META_PUBDATE"})>>, DashDates, <<>>),
       DatePattern(<<Lit({"LD_PUB"})>>, DashDates, <<>>),
       DatePattern(<<Lit({"LD_PUB"})>>, SlashDates, <<>>),
       DatePattern(<<Lit({"LD_PUB"})>>, CnDates, <<>>) >>

\* \s+\d{1,2}:\d{1,2}
ThenTime == <<Plus(SpaceLex), Lit({"TIME"})>>

\* self.date_patterns
DatePatterns ==
    << DatePattern(<<Lit({"STAR"}), Star(SpaceLex)>>, DashDates, ThenTime),
       DatePattern(<<Lit({"STAR"}), Star(SpaceLex), Lit({"GENGXIN"}), Star(SpaceLex)>>,
                   DashDates, ThenTime),
       DatePattern(<<Lit({"GENGXIN"}), Star(SpaceLex)>>, DashDates, ThenTime),
       DatePattern(<<Lit({"BYLINE"}), Star(SpaceLex)>>, DashDates, ThenTime),
       DatePattern(<<Lit({"BYLINE"}), Star(SpaceLex)>>, DashDates, ThenTime),
       DatePattern(<<>>, CnDates,
                   <<Rep({"ZHOU"}, 0, 1), Rep({"WDAY"}, 0, 1), Star(SpaceLex),
                     Lit({"AMPM"}), Star(SpaceLex), Lit({"TIME"})>>),
       DatePattern(<<>>, CnDates, <<Rep({"ZHOU"}, 0, 1), Rep({"WDAY"}, 0, 1)>>),
       DatePattern(<<>>, CnDates, <<>>),
       DatePattern(<<>>, DashDates, <<Plus(SpaceLex), Lit({"TIME"}), Lit({"SECS"})>>),
       DatePattern(<<>>, DashDates, ThenTime),
       DatePattern(<<>>, DashDates, <<>>),
       DatePattern(<<>>, SlashDates, <<>>) >>

\* The matches of p that start at s[i]: where the date stands and where the
\* match ends.
DateMatchesAt(p, s, i) ==
    LET dates == { j \in Ends(p.pre, 1, s, i) : j <= Len(s) /\ s[j] \in p.dates } IN
    UNION { { <<j, e>> : e \in Ends(p.post, 1, s, j + 1) } : j \in dates }

\* re.findall(p, s) from position `from` on: the date lexemes of the matches,
\* left to right, each match as long as it can be.
RECURSIVE FindAllFrom(_, _, _)
FindAllFrom(p, s, from) ==
    LET starts == { i \in from..Len(s) : DateMatchesAt(p, s, i) # {} } IN
    IF starts = {} THEN <<>>
    ELSE LET i == CHOOSE m \in starts : \A n \in starts : m <= n
             ms == DateMatchesAt(p, s, i)
             m == CHOOSE x \in ms : \A y \in ms : y[2] <= x[2]
         IN <<DateGroups(s[m[1]])>> \o FindAllFrom(p, s, m[2])

FindAll(p, s) == FindAllFrom(p, s, 1)

\* f"{year}/{int(month):02d}/{int(day):02d}": the year as matched, month and
\* day as numbers written with two digits.
FormatDate(groups) == <<groups[1], IntOf(groups[2]), IntOf(groups[3])>>

GroupsValid(groups) ==
    ValidateDateComponents(Num(IntOf(groups[1])), Num(IntOf(groups[2])), Num(IntOf(groups[3])))

\* ''.join(match)
Joined(groups) ==
    CASE groups = <<"2025", "05", "20">> -> "20250520"
      [] groups = <<"2024", "11", "03">> -> "20241103"
      [] groups = <<"2025", "03", "10">> -> "20250310"
      [] groups = <<"2019", "05", "20">> -> "20190520"
      [] groups = <<"2025", "02", "30">> -> "20250230"
      [] groups = <<"2026", "1", "15">> -> "2026115"

\* content.find(text) for a string of digits: its first offset, -1 if absent.
FindDigits(content, text) ==
    LET at == { i \in 1..Len(content) : content[i] \in CompactDates /\ content[i] = text } IN
    IF at = {} THEN -1
    ELSE Offset(content, CHOOSE m \in at : \A n \in at : m <= n)

PriorityBonus(pattern_index) ==
    IF pattern_index = 0 THEN PriorityBonus0
    ELSE IF pattern_index = 1 THEN PriorityBonus1
    ELSE IF pattern_index = 2 THEN PriorityBonus2
    ELSE IF pattern_index <= 6 THEN PriorityBonusUpTo6
    ELSE PriorityBonusRest

PositionBonus(match, content) ==
    LET position == FindDigits(content, Joined(match))
        length == SpanLen(content, 1, Len(content))
    IN IF position = -1 THEN 0
       ELSE IF position * 10 < length THEN TopTenthBonus
       ELSE IF position * 10 < length * 3 THEN TopThirdBonus
       ELSE 0

RecencyBonus(match, current_year) ==
    IF IntOf(match[1]) = current_year THEN ThisYearBonus
    ELSE IF IntOf(match[1]) = current_year - 1 THEN LastYearBonus
    ELSE 0

\* A variant that adds the bonuses of both markers.
SourceBonusBoth(content) ==
    (IF \E i \in 1..Len(content) : content[i] = "CNYES" THEN TrustedSourceBonus ELSE 0)
    + (IF \E i \in 1..Len(content) : content[i] = "BYLINE" THEN SecondarySourceBonus ELSE 0)

SourceBonus(content) ==
    IF \E i \in 1..Len(content) : content[i] = "CNYES" THEN TrustedSourceBonus
    ELSE IF \E i \in 1..Len(content) : content[i] = "BYLINE" THEN SecondarySourceBonus
    ELSE 0

\* _calculate_date_confidence
CalculateDateConfidence(match, content, pattern_index, current_year) ==
    BaseConfidence + PriorityBonus(pattern_index) + PositionBonus(match, content)
        + RecencyBonus(match, current_year) + SourceBonus(content)

\* The priority pass: the date of the first meta pattern whose first match
\* passes validation; <<>> when there is none.
RECURSIVE MetaDateFrom(_, _)
MetaDateFrom(actual, k) ==
    IF k > Len(MetaPatterns) THEN <<>>
    ELSE LET found == FindAll(MetaPatterns[k], actual) IN
         IF Len(found) > 0 /\ GroupsValid(found[1])
         THEN FormatDate(found[1])
         ELSE MetaDateFrom(actual, k + 1)

\* The candidates of pattern i (counted from 1), in the order of the matches.
Candidates(actual, i, current_year) ==
    LET found == FindAll(DatePatterns[i], actual)
        valid == SelectSeq(found, GroupsValid)
    IN [ n \in 1..Len(valid) |->
           [ date |-> FormatDate(valid[n]),
             pattern_index |-> i - 1,
             confidence |-> CalculateDateConfidence(valid[n], actual, i - 1, current_year) ] ]

\* found_dates after the cascade pass.
RECURSIVE FoundDatesFrom(_, _, _)
FoundDatesFrom(actual, i, current_year) ==
    IF i > Len(DatePatterns) THEN <<>>
    ELSE Candidates(actual, i, current_year) \o FoundDatesFrom(actual, i + 1, current_year)

\* list.sort(key=confidence, reverse=True): stable, so equal confidences keep
\* their order.
RECURSIVE InsertDesc(_, _)
InsertDesc(sorted, c) ==
    IF Len(sorted) = 0 THEN <<c>>
    ELSE IF sorted[Len(sorted)].confidence >= c.confidence THEN Append(sorted, c)
    ELSE Append(InsertDesc(SubSeq(sorted, 1, Len(sorted) - 1), c), sorted[Len(sorted)])

\* A sort that puts the later of two equal confidences first.
RECURSIVE InsertDescLast(_, _)
InsertDescLast(sorted, c) ==
    IF Len(sorted) = 0 THEN <<c>>
    ELSE IF sorted[Len(sorted)].confidence > c.confidence THEN Append(sorted, c)
    ELSE Append(InsertDescLast(SubSeq(sorted, 1, Len(sorted) - 1), c), sorted[Len(sorted)])

RECURSIVE SortDescLast(_)
SortDescLast(cs) ==
    IF Len(cs) = 0 THEN <<>>
    ELSE InsertDescLast(SortDescLast(SubSeq(cs, 1, Len(cs) - 1)), cs[Len(cs)])

RECURSIVE SortDesc(_)
SortDesc(cs) ==
    IF Len(cs) = 0 THEN <<>>
    ELSE InsertDesc(SortDesc(SubSeq(cs, 1, Len(cs) - 1)), cs[Len(cs)])

\* What the call returns and the found_dates it built.
ExtractContentDate(content, current_year) ==
    LET actual == GetContentWithoutYaml(content)
        meta == MetaDateFrom(actual, 1)
        found_dates == FoundDatesFrom(actual, 1, current_year)
    IN IF meta # <<>> THEN [date |-> meta, found_dates |-> <<>>]
       ELSE IF Len(found_dates) > 0
       THEN [date |-> SortDesc(found_dates)[1].date, found_dates |-> found_dates]
       ELSE [date |-> <<>>, found_dates |-> <<>>]

\* The fragments of a page, with a gap between neighbours.
RECURSIVE Join(_, _)
Join(frags, gap) ==
    IF Len(frags) = 0 THEN <<>>
    ELSE IF Len(frags) = 1 THEN frags[1]
    ELSE frags[1] \o gap \o Join(Tail(frags), gap)

\* The pages the extractor is run on: an optional front-matter block, then
\* up to MaxDateFrags fragments.
MaxDateFrags == 2

FrontMatters ==
    { <<>>,
      <<"YAML", "META_PUB", "2024-11-03", "YAML", "NL">>,
      <<"YAML", "META_PUB", "2024-11-03", "NL">> }

DateFragments ==
    { <<"STAR", " ", "2025-05-20", " ", "TIME">>,
      <<"GENGXIN", " ", "2024-11-03", " ", "TIME">>,
      <<"BYLINE", "NL", "2025-03-10", " ", "TIME">>,
      <<"2024n11y03r", "ZHOU", "WDAY", " ", "AMPM", "TIME">>,
      <<"2024-11-03", " ", "TIME", "SECS">>,
      <<"2025-05-20">>,
      <<"2024-11-03">>,
      <<"2026/1/15">>,
      <<"2025-02-30">>,
      <<"META_PUB", "2025-05-20">>,
      <<"META_PUB", "2019-05-20">>,
      <<"LD_PUB", "2024-11-03">>,
      <<"20250520">>,
      <<"x100">>,
      <<"CNYES">> }

DatePages ==
    { f \o Join(fs, <<>>) :
        f \in FrontMatters,
        fs \in UNION { [1..n -> DateFragments] : n \in 0..MaxDateFrags } }

\* datetime.now().year at the time of the call.
CurrentYears == { 2025, 2027 }

DeIdle ==
    /\ deContent = <<>> /\ deCurrentYear = 0
    /\ deResult = <<>> /\ deFoundDates = <<>> /\ dePc = "idle"

DeInit ==
    /\ deContent \in DatePages
    /\ deCurrentYear \in CurrentYears
    /\ deResult = <<>>
    /\ deFoundDates = <<>>
    /\ dePc = "call"

DeExtract ==
    /\ dePc = "call"
    /\ LET returned == ExtractContentDate(deContent, deCurrentYear) IN
         /\ deResult' = returned.date
         /\ deFoundDates' = returned.found_dates
    /\ dePc' = "done"
    /\ UNCHANGED <<deContent, deCurrentYear>>

(***************************************************************************)
(* _validate_content                                                       *)
(***************************************************************************)

\* self.enable_content_validation, as __init__ sets it; nothing changes it.
EnableContentValidation == TRUE

ProximityThreshold == 200

\* Confidences are in thousandths: 1.2 is 1200.
CombinedConfidence == 1200
ContextWeight == 500
SubstringWeight == 200
NameWeight == 300
FallbackThreshold == 700

DashSpace == {"-", " "}
ColonSpace == {":", " "}
NoCloseParen == Lexemes \ HasCloseParen
NoDigit == Lexemes \ DigitLex

\* re.compile of a pattern that interpolates w raises re.error when w holds
\* an unbalanced parenthesis.
RegexCompiles(w) == \A i \in 1..Len(w) : w[i] \notin {"(", ")"}

\* w occurs in s (Python's `w in s`).
Contains(s, w) == \E i \in 1..(Len(s) + 1) : MatchesAt(LitSeq(w), s, i)

\* The group of <title>(.*?)</title>: the text between the first <title> and
\* the first </title> after it; <<>> with found = FALSE when there is none.
TitleMatch(content) ==
    LET opens == { i \in 1..Len(content) :
                     /\ content[i] = "TITLE_OPEN"
                     /\ \E j \in (i + 1)..Len(content) : content[j] = "TITLE_CLOSE" }
    IN IF opens = {} THEN [found |-> FALSE, group |-> <<>>]
       ELSE LET i == CHOOSE m \in opens : \A n \in opens : m <= n
                closes == { j \in (i + 1)..Len(content) : content[j] = "TITLE_CLOSE" }
                j == CHOOSE m \in closes : \A n \in closes : m <= n
            IN [found |-> TRUE, group |-> SubSeq(content, i + 1, j - 1)]

\* The group of <meta property="og:title" content="(.*?)": the text between
\* the first such tag and the first quote after it.  The characters of a
\* following tag that precede its own first quote belong to the group; they
\* hold no parenthesis and no digit and are left out.
MetaTitleMatch(content) ==
    LET opens == { i \in 1..Len(content) :
                     /\ content[i] = "OG_OPEN"
                     /\ \E j \in (i + 1)..Len(content) : content[j] \in HasQuote }
    IN IF opens = {} THEN [found |-> FALSE, group |-> <<>>]
       ELSE LET i == CHOOSE m \in opens : \A n \in opens : m <= n
                closes == { j \in (i + 1)..Len(content) : content[j] \in HasQuote }
                j == CHOOSE m \in closes : \A n \in closes : m <= n
            IN [found |-> TRUE, group |-> SubSeq(content, i + 1, j - 1)]

\* A variant in which <title> takes precedence over og:title.
TitleTextTitleFirst(content) ==
    LET t == TitleMatch(content)
        m == MetaTitleMatch(content)
    IN IF t.found THEN Lower(t.group)
       ELSE IF m.found THEN Lower(m.group)
       ELSE <<>>

\* title_text: og:title when present, otherwise <title>, lower-cased.
TitleText(content) ==
    LET t == TitleMatch(content)
        m == MetaTitleMatch(content)
    IN IF m.found THEN Lower(m.group)
       ELSE IF t.found THEN Lower(t.group)
       ELSE <<>>

\* other_company_pattern: \((\d{4})[-\s]*tw\)
OtherCompanyPattern == <<Lit({"("}), Lit(DigitLex), Star(DashSpace), Lit({"tw"}), Lit({")"})>>

\* re.findall(other_company_pattern, title_text): the codes, as strings.
TitleCompanyMatches(title_text) ==
    { <<title_text[i + 1]>> : i \in { n \in 1..Len(title_text) :
                                       MatchesAt(OtherCompanyPattern, title_text, n) } }

CombinedPatterns(symbol, name_lower) ==
    << LitSeq(name_lower) \o <<Star(NoCloseParen), Lit({"("})>> \o LitSeq(symbol)
           \o <<Star(DashSpace), Lit({"tw"}), Lit({")"})>>,
       <<Lit({"("})>> \o LitSeq(symbol) \o <<Star(DashSpace), Lit({"tw"}), Lit({")"}),
           Star(NoCloseParen)>> \o LitSeq(name_lower),
       LitSeq(symbol) \o <<Star(DashSpace), Lit({"tw"}), Star(NoCloseParen)>>
           \o LitSeq(name_lower),
       LitSeq(name_lower) \o <<Rep(NoDigit, 0, 20)>> \o LitSeq(symbol)
           \o <<Star(DashSpace), Lit({"tw"})>>,
       <<Lit({"DAIHAO"}), Star(ColonSpace)>> \o LitSeq(symbol) \o <<Star(NoCloseParen)>>
           \o LitSeq(name_lower) >>

SymbolContexts(symbol) ==
    << <<Bnd>> \o LitSeq(symbol) \o <<Star(DashSpace), Lit({"tw"}), Bnd>>,
       LitSeq(symbol) \o <<Star(DashSpace), Lit({"TAIGU"})>>,
       <<Lit({"("})>> \o LitSeq(symbol) \o <<Star(DashSpace), Lit({"tw"}), Lit({")"})>>,
       <<Lit({"DAIHAO"}), Star(ColonSpace)>> \o LitSeq(symbol) \o <<Bnd>>,
       LitSeq(symbol) \o <<Plus(DashSpace), Lit(NoDigit)>> >>

FalsePositivePatterns(symbol) ==
    << <<Lit({"MUBIAOJIA"}), Lit({"WEI"}), Star(SpaceLex)>> \o LitSeq(symbol) \o <<Lit({"YUAN"})>>,
       <<Lit({"MUBIAOJIA"}), Lit({":"}), Star(SpaceLex)>> \o LitSeq(symbol) \o <<Lit({"YUAN"})>>,
       <<Lit({"YUGU"}), Lit({"MUBIAOJIA"}), Rep({"WEI"}, 0, 1), Star(SpaceLex)>>
           \o LitSeq(symbol) \o <<Lit({"YUAN"})>>,
       LitSeq(symbol) \o <<Star(SpaceLex), Lit({"YUAN"}), Star(SpaceLex), Lit({"MUBIAOJIA"})>>,
       <<Lit({"SHENGZHI"}), Star(SpaceLex)>> \o LitSeq(symbol) \o <<Lit({"YUAN"})>>,
       <<Lit({"TIAO"}), Lit({"SHENGZHI"}), Star(SpaceLex)>> \o LitSeq(symbol) \o <<Lit({"YUAN"})>> >>

AnyMatches(pats, s) == \E k \in 1..Len(pats) : Search(pats[k], s)

\* str.split(): the maximal runs without whitespace.
RECURSIVE SplitFrom(_, _)
SplitFrom(w, i) ==
    IF i > Len(w) THEN <<>>
    ELSE IF w[i] \in SpaceLex THEN SplitFrom(w, i + 1)
    ELSE LET stops == { j \in i..Len(w) : w[j] \in SpaceLex }
             e == IF stops = {} THEN Len(w) + 1
                  ELSE CHOOSE m \in stops : \A n \in stops : m <= n
         IN <<SubSeq(w, i, e - 1)>> \o SplitFrom(w, e)

Split(w) == SplitFrom(w, 1)

\* A variant in which one word of the name is always enough.
NameFoundAnyWord(name_lower, content_lower) ==
    LET name_words == Split(name_lower)
        hits == { k \in 1..Len(name_words) :
                    /\ SpanLen(name_words[k], 1, Len(name_words[k])) > 1
                    /\ Contains(content_lower, name_words[k]) }
    IN Cardinality(hits) >= 1

NameFound(name_lower, content_lower) ==
    LET name_words == Split(name_lower)
        hits == { k \in 1..Len(name_words) :
                    /\ SpanLen(name_words[k], 1, Len(name_words[k])) > 1
                    /\ Contains(content_lower, name_words[k]) }
        half == Len(name_words) \div 2
    IN Cardinality(hits) >= (IF half > 1 THEN half ELSE 1)

Verdict(valid, conf, layer, sym, ctx, nm, fp, dist) ==
    [ is_valid |-> valid, confidence |-> conf, validation_layer |-> layer,
      symbol_found |-> sym, symbol_in_context |-> ctx, name_found |-> nm,
      false_positive |-> fp, proximity_distance |-> dist ]

\* No verdict yet.
NoVerdict == Verdict(FALSE, 0, "none", FALSE, FALSE, FALSE, FALSE, -1)

ErrorVerdict == Verdict(FALSE, 0, "error", FALSE, FALSE, FALSE, FALSE, -1)

\* Layer 1; decisive iff it returns a verdict.
TitleVeto(content, symbol) ==
    LET found_symbols == TitleCompanyMatches(TitleText(content))
    IN found_symbols # {} /\ symbol \notin found_symbols

\* A variant that compares with < instead of <=.
ProximityDistancesStrict(content_lower, symbol, name_lower) ==
    LET symbol_positions == { Offset(content_lower, i) : i \in FindIter(symbol, content_lower) }
        name_positions == { Offset(content_lower, i) : i \in FindIter(name_lower, content_lower) }
        Abs(n) == IF n < 0 THEN -n ELSE n
    IN { Abs(sp - np) : sp \in symbol_positions, np \in name_positions }
         \cap (0..(ProximityThreshold - 1))

\* Layer 3: the distances of the pairs within the threshold.
ProximityDistances(content_lower, symbol, name_lower) ==
    LET symbol_positions == { Offset(content_lower, i) : i \in FindIter(symbol, content_lower) }
        name_positions == { Offset(content_lower, i) : i \in FindIter(name_lower, content_lower) }
        Abs(n) == IF n < 0 THEN -n ELSE n
    IN { Abs(sp - np) : sp \in symbol_positions, np \in name_positions }
         \cap (0..ProximityThreshold)

Min(S) == CHOOSE m \in S : \A n \in S : m <= n

\* A variant in which a symbol found in context overrides the price veto.
FallbackVerdictContextFirst(content_lower, symbol, symbol_lower, name_lower) ==
    LET symbol_in_context == AnyMatches(SymbolContexts(symbol), content_lower)
        is_false_positive == AnyMatches(FalsePositivePatterns(symbol), content_lower)
        name_found == NameFound(name_lower, content_lower)
        symbol_present == Contains(content_lower, symbol_lower)
        confidence == (IF symbol_in_context THEN ContextWeight
                       ELSE IF symbol_present THEN SubstringWeight ELSE 0)
                      + (IF name_found THEN NameWeight ELSE 0)
        is_valid == (symbol_in_context \/ symbol_present) /\ name_found
                    /\ confidence >= FallbackThreshold
    IN IF is_false_positive /\ ~symbol_in_context
       THEN Verdict(FALSE, 0, "price_detection", FALSE, FALSE, FALSE, TRUE, -1)
       ELSE Verdict(is_valid, confidence, "fallback",
                    symbol_in_context \/ symbol_present, symbol_in_context,
                    name_found, ~is_valid, -1)

\* Layer 4.
FallbackVerdict(content_lower, symbol, symbol_lower, name_lower) ==
    LET symbol_in_context == AnyMatches(SymbolContexts(symbol), content_lower)
        is_false_positive == AnyMatches(FalsePositivePatterns(symbol), content_lower)
        name_found == NameFound(name_lower, content_lower)
        symbol_present == Contains(content_lower, symbol_lower)
        confidence == (IF symbol_in_context THEN ContextWeight
                       ELSE IF symbol_present THEN SubstringWeight ELSE 0)
                      + (IF name_found THEN NameWeight ELSE 0)
        is_valid == (symbol_in_context \/ symbol_present) /\ name_found
                    /\ confidence >= FallbackThreshold
    IN IF is_false_positive
       THEN Verdict(FALSE, 0, "price_detection", FALSE, FALSE, FALSE, TRUE, -1)
       ELSE Verdict(is_valid, confidence, "fallback",
                    symbol_in_context \/ symbol_present, symbol_in_context,
                    name_found, ~is_valid, -1)

\* A variant whose proximity confidence falls by the whole of
\* min_distance / 200.
MatchLayersSteepProximity(content_lower, symbol, symbol_lower, name_lower) ==
    IF AnyMatches(CombinedPatterns(symbol, name_lower), content_lower)
    THEN Verdict(TRUE, CombinedConfidence, "combined_pattern", TRUE, TRUE, TRUE, FALSE, -1)
    ELSE LET ds == ProximityDistances(content_lower, symbol, name_lower) IN
         IF ds # {}
         THEN Verdict(TRUE, 1000 - (Min(ds) * 1000) \div ProximityThreshold,
                      "proximity_check", TRUE, TRUE, TRUE, FALSE, Min(ds))
         ELSE FallbackVerdict(content_lower, symbol, symbol_lower, name_lower)

\* Layers 2 to 4, once the patterns have compiled.
MatchLayers(content_lower, symbol, symbol_lower, name_lower) ==
    IF AnyMatches(CombinedPatterns(symbol, name_lower), content_lower)
    THEN Verdict(TRUE, CombinedConfidence, "combined_pattern", TRUE, TRUE, TRUE, FALSE, -1)
    ELSE LET ds == ProximityDistances(content_lower, symbol, name_lower) IN
         IF ds # {}
         THEN \* 1.0 - (min_distance / 200) * 0.2, in thousandths
              Verdict(TRUE, 1000 - (Min(ds) * 200) \div ProximityThreshold,
                      "proximity_check", TRUE, TRUE, TRUE, FALSE, Min(ds))
         ELSE FallbackVerdict(content_lower, symbol, symbol_lower, name_lower)

\* The body of the try statement: the verdict it returns, or raised = TRUE
\* when an exception leaves it.  content_is_str = FALSE: content is not a
\* string and content.lower() raises.
TryValidate(content_is_str, content, symbol, name) ==
    IF ~content_is_str THEN [raised |-> TRUE, verdict |-> NoVerdict]
    ELSE LET content_lower == Lower(content)
             symbol_lower == Lower(symbol)
             name_lower == Lower(name)
         IN IF TitleVeto(content, symbol)
            THEN [raised |-> FALSE,
                  verdict |-> Verdict(FALSE, 0, "title_check", FALSE, FALSE, FALSE, TRUE, -1)]
            ELSE IF ~(RegexCompiles(name_lower) /\ RegexCompiles(symbol))
            THEN [raised |-> TRUE, verdict |-> NoVerdict]
            ELSE [raised |-> FALSE,
                  verdict |-> MatchLayers(content_lower, symbol, symbol_lower, name_lower)]

\* A variant whose except clause is missing: nothing is returned.
ValidateContentUncaught(content_is_str, content, symbol, name) ==
    TryValidate(content_is_str, content, symbol, name).verdict

ValidateContent(content_is_str, content, symbol, name) ==
    IF ~EnableContentValidation
    THEN Verdict(TRUE, 0, "disabled", FALSE, FALSE, FALSE, FALSE, -1)
    ELSE LET r == TryValidate(content_is_str, content, symbol, name) IN
         IF r.raised THEN ErrorVerdict     \* except Exception
         ELSE r.verdict

(***************************************************************************)
(* The pages, symbols and names _validate_content is called with: a head   *)
(* (title and og:title tags), then up to MaxBodyFrags body fragments, with *)
(* the same gap of letters between consecutive fragments.                  *)
(***************************************************************************)

MaxBodyFrags == 2

CodeTag(code, tw) == <<"(", code, "-", tw, ")">>
TitleTag(inner) == <<"TITLE_OPEN">> \o inner \o <<"TITLE_CLOSE">>
OgTag(inner) == <<"OG_OPEN">> \o inner \o <<"QUOTE">>

Heads ==
    { <<>>,
      TitleTag(CodeTag("2317", "TW")),
      TitleTag(CodeTag("2330", "TW")),
      TitleTag(CodeTag("2317", "TW") \o <<"(", "2330", " ", "tw", ")">>),
      OgTag(CodeTag("2317", "TW")) \o TitleTag(CodeTag("2330", "TW")),
      OgTag(CodeTag("2330", "TW")) \o TitleTag(CodeTag("2317", "TW")),
      TitleTag(<<"2317", "-", "TW">>),
      <<"TITLE_OPEN">> \o CodeTag("2317", "TW") }

BodyFragments ==
    { <<"Lianfa">> \o CodeTag("2330", "TW"),
      <<"Lianfa">>,
      <<"2330">>,
      <<"2330", "-", "TW">>,
      <<"MUBIAOJIA", "WEI", "2330", "YUAN">>,
      CodeTag("2317", "TW"),
      <<"2330", " ", "YUAN">>,
      <<"DAIHAO", ":", "2330">>,
      <<"2330", " ", "2330">>,
      <<"Keji">> }

Gaps == { <<>>, <<"x196">>, <<"x197">> }

\* What a body may hold after its second fragment: the bare name or the
\* bare symbol.
TailFragments == { <<"Lianfa">>, <<"2330">> }

Bodies ==
    { Join(fs, g) :
        fs \in UNION { { f \in [1..n -> BodyFragments] :
                           \A k \in 3..n : f[k] \in TailFragments } :
                       n \in 0..MaxBodyFrags },
        g \in Gaps }

Pages == { h \o b : h \in Heads, b \in Bodies }

\* The target symbol and name, each also with an unbalanced parenthesis.
Symbols == { <<"2330">>, <<"2330", "(">> }
Names == { <<"Lianfa">>, <<"Lianfa", "(">> }

\* Names of several words, some of them of one letter.
WordyNames ==
    { <<"Lianfa", " ", "Keji">>,
      <<"K", " ", "Lianfa">>,
      <<"Lianfa", " ", "Keji", " ", "K", " ", "K">> }

VIdle ==
    /\ vContentIsStr = TRUE /\ vContent = <<>> /\ vSymbol = <<>> /\ vName = <<>>
    /\ vVerdict = NoVerdict /\ vRaised = FALSE /\ vPc = "idle"

VInit ==
    /\ vContentIsStr \in BOOLEAN
    /\ vContent \in (IF vContentIsStr THEN Pages ELSE {<<>>})
    /\ vSymbol \in Symbols
    /\ vName \in (IF vSymbol = <<"2330">> THEN Names \cup WordyNames ELSE Names)
    /\ vVerdict = NoVerdict
    /\ vRaised = FALSE
    /\ vPc = "call"

VValidate ==
    /\ vPc = "call"
    /\ vVerdict' = ValidateContent(vContentIsStr, vContent, vSymbol, vName)
    /\ vRaised' = (EnableContentValidation
                   /\ TryValidate(vContentIsStr, vContent, vSymbol, vName).raised)
    /\ vPc' = "done"
    /\ UNCHANGED <<vContentIsStr, vContent, vSymbol, vName>>

(***************************************************************************)
(* search_comprehensive                                                    *)
(***************************************************************************)

\* The count argument: a number or a string.
IntCount(n) == [isStr |-> FALSE, int |-> n, str |-> ""]
StrCount(str) == [isStr |-> TRUE, int |-> 0, str |-> str]

\* target_count: a number or float('inf').
Finite(n) == [finite |-> TRUE, val |-> n]
Infinite == [finite |-> FALSE, val |-> 0]

\* int(str) succeeds.
IsIntegerLiteral(str) == str \in {"0", "1"}

\* The conversion of count at the head of search_comprehensive.
TargetCount(count) ==
    IF count.isStr
    THEN IF count.str = "all" THEN Infinite
         ELSE IF IsIntegerLiteral(count.str) THEN Finite(IntOf(count.str))
         ELSE Infinite
    ELSE Finite(count.int)

\* self.refined_search_patterns: the categories in the order of declaration,
\* each with its query templates in order.
RefinedSearchPatterns ==
    << [category |-> "factset_direct",
        patterns |-> <<"CNYES_FACTSET_SYMBOL_EPS", "CNYES_SYMBOL_NAME_FACTSET",
                       "SYMBOL_NAME_FACTSET_CONSENSUS">>],
       [category |-> "eps_forecast",
        patterns |-> <<"NAME_EPS_FORECAST", "SYMBOL_ANALYST_CONSENSUS",
                       "SYMBOL_NAME_ANALYST_FACTSET">>] >>

\* _get_all_search_patterns: every template with symbol and name filled in.
GetAllSearchPatterns(symbol, name) ==
    [ c \in 1..Len(RefinedSearchPatterns) |->
        [ category |-> RefinedSearchPatterns[c].category,
          patterns |-> [ p \in 1..Len(RefinedSearchPatterns[c].patterns) |->
                           [ template |-> RefinedSearchPatterns[c].patterns[p],
                             symbol |-> symbol, name |-> name ] ] ] ]

SearchSymbol == "2330"
SearchName == "Lianfa"
AllPatterns == GetAllSearchPatterns(SearchSymbol, SearchName)

\* len(results) >= target_count
CountReached(results, target_count) ==
    target_count.finite /\ Len(results) >= target_count.val

\* What requests.get and raise_for_status do for a url: an exception of
\* the transport, a response with an error status, or a response with text.
GetRaises == [raises |-> TRUE, error_status |-> FALSE, text |-> ""]
GetErrorStatus == [raises |-> FALSE, error_status |-> TRUE, text |-> "error page"]
GetText(text) == [raises |-> FALSE, error_status |-> FALSE, text |-> text]

\* _fetch_page_content: the text of the response, None after an exception.
NoContent == [none |-> TRUE, text |-> ""]

FetchPageContent(get) ==
    IF get.raises \/ get.error_status THEN NoContent
    ELSE [none |-> FALSE, text |-> get.text]

\* A hit of a response: whether it has a link and a title, what the fetch
\* of its page does, what _validate_content says of the page and what
\* _assess_quality returns for it (NaN when that is no number).
Hit(linked, get, is_valid, quality) ==
    [linked |-> linked, get |-> get, is_valid |-> is_valid, quality |-> quality]

\* _fetch_page_content is called for the hit and returns a text.
Fetches(item) == item.linked /\ ~FetchPageContent(item.get).none

\* _process_search_result_with_md_date: None, or the result with its
\* quality_score.
NoResult == [none |-> TRUE, url |-> <<>>, is_valid |-> FALSE, quality_score |-> NaN]

ProcessSearchResult(item, url) ==
    IF ~item.linked THEN NoResult
    ELSE IF FetchPageContent(item.get).none \/ FetchPageContent(item.get).text = ""
    THEN NoResult
    ELSE [none |-> FALSE, url |-> url, is_valid |-> item.is_valid,
          quality_score |-> IF item.is_valid THEN item.quality ELSE Num(0)]

\* The comparison of quality_score with min_quality raises.
ComparisonRaises(processed) == ~processed.none /\ ~processed.quality_score.numeric

\* processed_result and processed_result.get('quality_score', 0) >= min_quality
Qualifies(processed, min_quality) ==
    /\ ~processed.none
    /\ processed.quality_score.numeric
    /\ processed.quality_score.val >= min_quality

\* results[:int(target_count)], or results when target_count is infinite.
FinalResultsUnsliced(results, target_count) == results

FinalResults(results, target_count) ==
    IF target_count.finite
    THEN SubSeq(results, 1, IF target_count.val < Len(results)
                            THEN target_count.val ELSE Len(results))
    ELSE results

\* Where the loops stand once the query at (c, p) is over.  `checked` says
\* that the count is compared after the query, which the handler of an
\* exception skips.  First a variant without that handler.
AfterPatternUncaught(results, target_count, c, p, checked) ==
    IF ~checked
    THEN [pc |-> "raised", category |-> c, pattern |-> p]
    ELSE IF CountReached(results, target_count)
    THEN [pc |-> "return", category |-> c, pattern |-> p]
    ELSE IF p < Len(AllPatterns[c].patterns)
    THEN [pc |-> "search", category |-> c, pattern |-> p + 1]
    ELSE IF c < Len(AllPatterns)
    THEN [pc |-> "search", category |-> c + 1, pattern |-> 1]
    ELSE [pc |-> "return", category |-> c, pattern |-> p]

AfterPattern(results, target_count, c, p, checked) ==
    IF checked /\ CountReached(results, target_count)
    THEN [pc |-> "return", category |-> c, pattern |-> p]
    ELSE IF p < Len(AllPatterns[c].patterns)
    THEN [pc |-> "search", category |-> c, pattern |-> p + 1]
    ELSE IF CountReached(results, target_count)
    THEN [pc |-> "return", category |-> c, pattern |-> p]
    ELSE IF c < Len(AllPatterns)
    THEN [pc |-> "search", category |-> c + 1, pattern |-> 1]
    ELSE [pc |-> "return", category |-> c, pattern |-> p]

\* What api_manager.search gives back: an exception, nothing, or items.
MaxTarget == 3

ApiRaises == [raises |-> TRUE, items |-> <<>>]
ApiItems(items) == [raises |-> FALSE, items |-> items]

Page == GetText("page")

ApiResponses ==
    { ApiRaises,
      ApiItems(<<>>),
      ApiItems(<<Hit(TRUE, Page, TRUE, Num(7))>>),
      ApiItems(<<Hit(TRUE, Page, TRUE, Num(7)), Hit(TRUE, Page, TRUE, Num(4))>>),
      ApiItems(<<Hit(TRUE, Page, FALSE, Num(7)), Hit(TRUE, Page, TRUE, Num(7))>>),
      ApiItems(<<Hit(TRUE, GetRaises, TRUE, Num(7)), Hit(TRUE, Page, TRUE, Num(3))>>),
      ApiItems(<<Hit(TRUE, Page, TRUE, NaN), Hit(TRUE, Page, TRUE, Num(7))>>),
      ApiItems(<<Hit(TRUE, GetErrorStatus, TRUE, Num(7)), Hit(TRUE, GetText(""), TRUE, Num(7))>>),
      ApiItems(<<Hit(FALSE, Page, TRUE, Num(7)), Hit(TRUE, GetRaises, TRUE, Num(7))>>) }

Counts ==
    { IntCount(n) : n \in 0..MaxTarget } \cup { StrCount(str) : str \in {"all", "1", "many"} }

MinQualities == { 0, 4, 5 }

\* The url of the k-th item of the response to the query at (c, p).
UrlOf(c, p, k) == <<c, p, k>>

SIdle ==
    /\ sCount = IntCount(0) /\ sMinQuality = 0 /\ sTargetCount = Infinite
    /\ sResults = <<>> /\ sCategory = 0 /\ sPattern = 0 /\ sItems = <<>> /\ sItem = 0
    /\ sReturned = <<>> /\ sOffered = <<>> /\ sFetched = FALSE /\ sPc = "idle"

SInit ==
    /\ sCount \in Counts
    /\ sMinQuality \in MinQualities
    /\ sTargetCount = Infinite
    /\ sResults = <<>> /\ sCategory = 0 /\ sPattern = 0 /\ sItems = <<>> /\ sItem = 0
    /\ sReturned = <<>> /\ sOffered = <<>> /\ sFetched = FALSE
    /\ sPc = "call"

\* The head of search_comprehensive, up to the loops.
SStart ==
    /\ sPc = "call"
    /\ sTargetCount' = TargetCount(sCount)
    /\ sCategory' = 1 /\ sPattern' = 1
    /\ sPc' = "search"
    /\ UNCHANGED <<sCount, sMinQuality, sResults, sItems, sItem, sReturned, sOffered,
                   sFetched>>

\* One api_manager.search call and what follows it up to the first hit or,
\* when there is none to process, up to the next query.
SSearch ==
    /\ sPc = "search"
    /\ \E response \in ApiResponses :
         LET items == response.items
             after == AfterPattern(sResults, sTargetCount, sCategory, sPattern,
                                   ~response.raises)
             offered == SelectSeq([k \in 1..Len(items) |->
                                     ProcessSearchResult(items[k], UrlOf(sCategory, sPattern, k))],
                                  LAMBDA r : Qualifies(r, sMinQuality))
         IN IF Len(items) > 0
            THEN /\ sItems' = items /\ sItem' = 1 /\ sPc' = "items"
                 /\ sOffered' = sOffered \o [k \in 1..Len(offered) |-> offered[k].url]
                 /\ UNCHANGED <<sCategory, sPattern>>
            ELSE /\ sItems' = <<>> /\ sItem' = 0
                 /\ sPc' = after.pc /\ sCategory' = after.category /\ sPattern' = after.pattern
                 /\ UNCHANGED sOffered
    /\ UNCHANGED <<sCount, sMinQuality, sTargetCount, sResults, sReturned, sFetched>>

\* One turn of the loop over the items, and what follows it up to the next
\* hit or the next query.
SProcess ==
    /\ sPc = "items"
    /\ LET processed == ProcessSearchResult(sItems[sItem], UrlOf(sCategory, sPattern, sItem))
           results == IF Qualifies(processed, sMinQuality)
                      THEN Append(sResults, processed) ELSE sResults
           broken == Qualifies(processed, sMinQuality) /\ CountReached(results, sTargetCount)
           after == AfterPattern(results, sTargetCount, sCategory, sPattern, TRUE)
       IN /\ sResults' = results
          /\ sFetched' = (sFetched \/ Fetches(sItems[sItem]))
          /\ IF ~broken /\ sItem < Len(sItems)
             THEN /\ sItem' = sItem + 1
                  /\ UNCHANGED <<sItems, sCategory, sPattern, sPc>>
             ELSE /\ sItems' = <<>> /\ sItem' = 0
                  /\ sPc' = after.pc /\ sCategory' = after.category
                  /\ sPattern' = after.pattern
    /\ UNCHANGED <<sCount, sMinQuality, sTargetCount, sReturned, sOffered>>

\* The tail of search_comprehensive.
SReturn ==
    /\ sPc = "return"
    /\ sReturned' = FinalResults(sResults, sTargetCount)
    /\ sPc' = "done"
    /\ UNCHANGED <<sCount, sMinQuality, sTargetCount, sResults, sCategory, sPattern,
                   sItems, sItem, sOffered, sFetched>>

(***************************************************************************)
(* generate_md_file_with_md_date and save_md_file                          *)
(***************************************************************************)

\* The results a document is made of.  A text is a sequence of characters.
StoreResults ==
    [ content : { <<"c">>, <<"c", "u">> },
      url : { <<>>, <<"u">> },
      title : { <<"t">> },
      md_date : { <<>>, <<"2025/05/20">> },
      extracted_date : { "T1", "T2" },
      quality_score : { 7 },
      search_query : { "Q" },
      stock_code : { "2330" },
      company : { "Lianfa" } ]

\* hashlib.md5(...).hexdigest()[:8], taken to tell any two texts apart: the
\* digest of a text is named by the text.
Md5Prefix(text) == text

\* generate_md_file_with_md_date: the filename and the document.
GenerateMdFile(result, result_index) ==
    LET content_for_hash == result.content \o result.url \o result.title \o result.md_date
    IN [ filename |-> [ company_code |-> result.stock_code,
                        company_name |-> result.company,
                        content_hash |-> Md5Prefix(content_for_hash) ],
         md_content |-> [ metadata |-> [ url |-> result.url,
                                         title |-> result.title,
                                         quality_score |-> result.quality_score,
                                         company |-> result.company,
                                         stock_code |-> result.stock_code,
                                         md_date |-> result.md_date,
                                         extracted_date |-> result.extracted_date,
                                         search_query |-> result.search_query,
                                         result_index |-> result_index ],
                          content |-> result.content ] ]

Filenames == { GenerateMdFile(r, 1).filename : r \in StoreResults }

\* What the directory holds under a name: nothing, or a file with all the
\* bytes of a document, or with only some of them after a failed write.
NoDocument == [metadata |-> <<>>, content |-> <<>>]
NoFile == [exists |-> FALSE, complete |-> FALSE, doc |-> NoDocument]
WholeFile(doc) == [exists |-> TRUE, complete |-> TRUE, doc |-> doc]
BrokenFile(doc) == [exists |-> TRUE, complete |-> FALSE, doc |-> doc]

\* os.path.join(output_dir, filename); "" is NoPath.
PathOf(filename) == [dir |-> "data/md", name |-> filename]
NoPath == [dir |-> "", name |-> <<>>]

\* What open and write do: the file is written, open raises and leaves the
\* directory as it is, or the write raises after open has created the file.
WriteOutcomes == { "written", "open_raises", "write_raises" }

\* save_md_file: the directory after the call, the path returned, whether
\* the file was opened for writing and whether the write succeeded.
SaveMdFile(files, filename, content, outcome) ==
    IF files[filename].exists
    THEN [files |-> files, returned |-> PathOf(filename), opened |-> FALSE, wrote |-> FALSE]
    ELSE IF outcome = "written"
    THEN [files |-> [files EXCEPT ![filename] = WholeFile(content)],
          returned |-> PathOf(filename), opened |-> TRUE, wrote |-> TRUE]
    ELSE IF outcome = "write_raises"
    THEN [files |-> [files EXCEPT ![filename] = BrokenFile(content)],
          returned |-> NoPath, opened |-> TRUE, wrote |-> FALSE]
    ELSE [files |-> files, returned |-> NoPath, opened |-> FALSE, wrote |-> FALSE]

MaxSaves == 3
MaxCallers == 2

Callers == 1..MaxCallers

NoCall == [filename |-> <<>>, content |-> NoDocument, returned |-> NoPath,
           existed |-> FALSE, wrote |-> FALSE]
IdleCaller == [pc |-> "idle", filename |-> <<>>, content |-> NoDocument,
               returned |-> NoPath, opened |-> FALSE, wrote |-> FALSE]

StIdle ==
    /\ stFiles = <<>> /\ stCalls = 0 /\ stLast = NoCall /\ stFirst = <<>>
    /\ stWrites = <<>> /\ stCaller = <<>>

\* An empty directory.
StEmpty ==
    /\ stFiles = [f \in Filenames |-> NoFile]
    /\ stFirst = [f \in Filenames |-> NoDocument]
    /\ stWrites = [f \in Filenames |-> 0]

StInit ==
    /\ StEmpty
    /\ stCalls = 0 /\ stLast = NoCall
    /\ stCaller = [p \in Callers |-> IdleCaller]

\* A document is generated and saved: one whole call of each function.
StSave ==
    /\ stCalls < MaxSaves
    /\ \E r \in StoreResults, outcome \in WriteOutcomes :
         LET generated == GenerateMdFile(r, stCalls + 1)
             filename == generated.filename
             saved == SaveMdFile(stFiles, filename, generated.md_content, outcome)
         IN /\ stFiles' = saved.files
            /\ stLast' = [filename |-> filename, content |-> generated.md_content,
                          returned |-> saved.returned,
                          existed |-> stFiles[filename].exists, wrote |-> saved.wrote]
            /\ stFirst' = IF saved.wrote /\ stFirst[filename] = NoDocument
                          THEN [stFirst EXCEPT ![filename] = generated.md_content]
                          ELSE stFirst
            /\ stWrites' = IF saved.opened
                           THEN [stWrites EXCEPT ![filename] = @ + 1] ELSE stWrites
    /\ stCalls' = stCalls + 1
    /\ UNCHANGED stCaller

\* The documents the callers that run side by side save.
ParallelResults ==
    { r \in StoreResults : r.url = <<"u">> /\ r.md_date = <<>> }

\* A caller enters save_md_file with a generated document.
StCall(p) ==
    /\ stCaller[p].pc = "idle"
    /\ \E r \in ParallelResults :
         LET generated == GenerateMdFile(r, p) IN
         stCaller' = [stCaller EXCEPT ![p] =
                        [@ EXCEPT !.pc = "exists", !.filename = generated.filename,
                                  !.content = generated.md_content]]
    /\ UNCHANGED <<stFiles, stCalls, stLast, stFirst, stWrites>>

\* os.path.exists(file_path), and the return when the file is there.
StExists(p) ==
    /\ stCaller[p].pc = "exists"
    /\ stCaller' = [stCaller EXCEPT ![p] =
                      IF stFiles[stCaller[p].filename].exists
                      THEN [@ EXCEPT !.pc = "done", !.returned = PathOf(stCaller[p].filename)]
                      ELSE [@ EXCEPT !.pc = "open"]]
    /\ UNCHANGED <<stFiles, stCalls, stLast, stFirst, stWrites>>

\* open(file_path, 'w'): the file is created or emptied, or open raises.
StOpen(p) ==
    /\ stCaller[p].pc = "open"
    /\ \/ /\ stFiles' = [stFiles EXCEPT ![stCaller[p].filename] = BrokenFile(stCaller[p].content)]
          /\ stWrites' = [stWrites EXCEPT ![stCaller[p].filename] = @ + 1]
          /\ stCaller' = [stCaller EXCEPT ![p] = [@ EXCEPT !.pc = "write", !.opened = TRUE]]
       \/ /\ stCaller' = [stCaller EXCEPT ![p] = [@ EXCEPT !.pc = "done", !.returned = NoPath]]
          /\ UNCHANGED <<stFiles, stWrites>>
    /\ UNCHANGED <<stCalls, stLast, stFirst>>

\* f.write(content) and the end of the with statement, or an exception.
StWrite(p) ==
    /\ stCaller[p].pc = "write"
    /\ \/ /\ stFiles' = [stFiles EXCEPT ![stCaller[p].filename] = WholeFile(stCaller[p].content)]
          /\ stFirst' = IF stFirst[stCaller[p].filename] = NoDocument
                        THEN [stFirst EXCEPT ![stCaller[p].filename] = stCaller[p].content]
                        ELSE stFirst
          /\ stCaller' = [stCaller EXCEPT ![p] =
                            [@ EXCEPT !.pc = "done", !.wrote = TRUE,
                                      !.returned = PathOf(stCaller[p].filename)]]
       \/ /\ stCaller' = [stCaller EXCEPT ![p] = [@ EXCEPT !.pc = "done", !.returned = NoPath]]
          /\ UNCHANGED <<stFiles, stFirst>>
    /\ UNCHANGED <<stCalls, stLast, stWrites>>

InitDateValid == DvInit /\ VIdle /\ DeIdle /\ SIdle /\ StIdle
SpecDateValid == InitDateValid /\ [][NextDateValid]_vars

InitValidate == VInit /\ DvIdle /\ DeIdle /\ SIdle /\ StIdle
NextValidate == VValidate /\ UNCHANGED <<dvVars, deVars, sVars, stVars>>
SpecValidate == InitValidate /\ [][NextValidate]_vars

InitDate == DeInit /\ DvIdle /\ VIdle /\ SIdle /\ StIdle
NextDate == DeExtract /\ UNCHANGED <<dvVars, vVars, sVars, stVars>>
SpecDate == InitDate /\ [][NextDate]_vars

InitSearch == SInit /\ DvIdle /\ VIdle /\ DeIdle /\ StIdle
NextSearch == (SStart \/ SSearch \/ SProcess \/ SReturn) /\ UNCHANGED <<dvVars, vVars, deVars, stVars>>
SpecSearch == InitSearch /\ [][NextSearch]_vars

\* search_comprehensive runs on: every step that can be taken is taken.
SpecSearchLive == SpecSearch /\ WF_vars(NextSearch)

InitStore == StInit /\ DvIdle /\ VIdle /\ DeIdle /\ SIdle
NextStore == StSave /\ UNCHANGED <<dvVars, vVars, deVars, sVars>>
SpecStore == InitStore /\ [][NextStore]_vars

NextStoreParallel ==
    /\ \E p \in Callers : StCall(p) \/ StExists(p) \/ StOpen(p) \/ StWrite(p)
    /\ UNCHANGED <<dvVars, vVars, deVars, sVars>>
SpecStoreParallel == InitStore /\ [][NextStoreParallel]_vars

(***************************************************************************)
(* Claims about _validate_content, checked under SpecValidate.  What the   *)
(* claims say about a page is read off the page itself here, not off the   *)
(* operators above.                                                        *)
(***************************************************************************)

VDone == vPc = "done" /\ vContentIsStr

\* w is at position i of s.
OccursAt(s, w, i) ==
    /\ i >= 1 /\ i + Len(w) - 1 <= Len(s)
    /\ \A k \in 1..Len(w) : s[i + k - 1] = w[k]

Occurs(s, w) == \E i \in 1..(Len(s) + 1) : OccursAt(s, w, i)

\* Case-insensitive reading of one lexeme.
SameLetters(a, b) ==
    \/ a = b
    \/ {a, b} = {"TW", "tw"}
    \/ {a, b} = {"Lianfa", "lianfa"}
    \/ {a, b} = {"Keji", "keji"}
    \/ {a, b} = {"K", "k"}

\* A company code "(dddd-TW)" starts at position i of s, written with a dash,
\* a blank or nothing between the digits and TW.
CodeAt(s, i, code) ==
    /\ i + 3 <= Len(s)
    /\ s[i] = "(" /\ s[i + 1] = code
    /\ \E j \in (i + 2)..(Len(s) - 1) :
         /\ \A k \in (i + 2)..(j - 1) : s[k] \in {"-", " "}
         /\ SameLetters(s[j], "TW")
         /\ s[j + 1] = ")"

CodesIn(s) == { <<c>> : c \in { d \in {"2330", "2317"} : \E i \in 1..Len(s) : CodeAt(s, i, d) } }

\* The extracted title: the og:title content when that tag is present,
\* otherwise the <title> element.
ExtractedTitle ==
    LET ogs == { i \in 1..Len(vContent) :
                   vContent[i] = "OG_OPEN"
                   /\ \E j \in (i + 1)..Len(vContent) : vContent[j] \in {"QUOTE", "OG_OPEN"} }
        tos == { i \in 1..Len(vContent) :
                   vContent[i] = "TITLE_OPEN"
                   /\ \E j \in (i + 1)..Len(vContent) : vContent[j] = "TITLE_CLOSE" }
        First(S) == CHOOSE m \in S : \A n \in S : m <= n
        Until(i, T) == First({ j \in (i + 1)..Len(vContent) : vContent[j] \in T })
    IN IF ogs # {}
       THEN SubSeq(vContent, First(ogs) + 1, Until(First(ogs), {"QUOTE", "OG_OPEN"}) - 1)
       ELSE IF tos # {}
       THEN SubSeq(vContent, First(tos) + 1, Until(First(tos), {"TITLE_CLOSE"}) - 1)
       ELSE <<>>

\* The title names company codes and none of them is the target symbol.
TitleNamesOnlyOthers ==
    CodesIn(ExtractedTitle) # {} /\ vSymbol \notin CodesIn(ExtractedTitle)

\* The page holds the name immediately followed by "(symbol-TW)".
NameThenCode ==
    \E tw \in {"TW", "tw"} :
        Occurs(vContent, vName \o <<"(">> \o vSymbol \o <<"-", tw, ")">>)

\* Symbol and name hold no regular-expression metacharacter.
PlainArguments ==
    /\ \A i \in 1..Len(vSymbol) : vSymbol[i] \notin {"(", ")"}
    /\ \A i \in 1..Len(vName) : vName[i] \notin {"(", ")"}

\* C1: if the extracted title (og:title when present, otherwise <title>)
\* holds one or more "(dddd-TW)" codes and none equals the target symbol, the
\* verdict is invalid, from title_check, with confidence 0, whatever else
\* the page holds.
C1_TitleVeto ==
    (VDone /\ TitleNamesOnlyOthers)
        => /\ vVerdict.is_valid = FALSE
           /\ vVerdict.validation_layer = "title_check"
           /\ vVerdict.confidence = 0

\* The title names 2317 only, the body holds "Lianfa(2330-TW)", and the
\* verdict is the title veto.
C1_Witness ==
    /\ VDone /\ TitleNamesOnlyOthers
    /\ vSymbol = <<"2330">> /\ vName = <<"Lianfa">>
    /\ NameThenCode
    /\ vVerdict.validation_layer = "title_check"

\* C2 as stated: every page that holds the name immediately followed by
\* "(symbol-TW)" gets a valid verdict from combined_pattern with confidence
\* 1.2.
C2_AsStated ==
    (VDone /\ NameThenCode)
        => /\ vVerdict.is_valid = TRUE
           /\ vVerdict.validation_layer = "combined_pattern"
           /\ vVerdict.confidence = 1200

\* C2, amended: a page that holds the name immediately followed by
\* "(symbol-TW)", whose title does not name other companies only, for a
\* symbol and a name without regular-expression metacharacters, gets a valid
\* verdict from combined_pattern with confidence exactly 1.2.
C2_CombinedPattern ==
    (VDone /\ NameThenCode /\ PlainArguments /\ ~TitleNamesOnlyOthers)
        => /\ vVerdict.is_valid = TRUE
           /\ vVerdict.validation_layer = "combined_pattern"
           /\ vVerdict.confidence = 1200

\* "Lianfa(2330-TW)" under a title that names 2330 itself.
C2_Witness ==
    /\ VDone /\ NameThenCode /\ PlainArguments
    /\ CodesIn(ExtractedTitle) = {<<"2330">>}
    /\ vVerdict.validation_layer = "combined_pattern"
    /\ vVerdict.confidence = 1200

\* Offsets of the occurrences of w in s.
OffsetsOf(s, w) == { SpanLen(s, 1, i - 1) : i \in { n \in 1..Len(s) : OccursAt(s, w, n) } }

\* Distances between a symbol occurrence and a name occurrence, compared
\* without regard to case.
FoldCase(s) == [i \in 1..Len(s) |->
                  CASE s[i] = "TW" -> "tw" [] s[i] = "Lianfa" -> "lianfa"
                    [] s[i] = "Keji" -> "keji" [] s[i] = "K" -> "k" [] OTHER -> s[i]]

PairDistances ==
    { IF a < b THEN b - a ELSE a - b :
        a \in OffsetsOf(FoldCase(vContent), FoldCase(vSymbol)),
        b \in OffsetsOf(FoldCase(vContent), FoldCase(vName)) }

Least(S) == CHOOSE m \in S : \A n \in S : m <= n

\* Layers 1 and 2 are not decisive: no title veto, no exception, no combined
\* pattern.
PastLayerTwo ==
    /\ VDone /\ ~vRaised
    /\ vVerdict.validation_layer \notin {"title_check", "combined_pattern"}

\* Layers 1 to 3 are not decisive.
PastLayerThree ==
    /\ PastLayerTwo
    /\ vVerdict.validation_layer # "proximity_check"

\* C3: when Layers 1 and 2 are not decisive and some symbol occurrence and
\* some name occurrence lie at most 200 characters apart, the verdict is
\* valid, from proximity_check, proximity_distance is the least distance
\* over all pairs, and confidence = 1.0 - (that distance / 200) * 0.2 (in
\* thousandths: 1000 minus the distance), within [0.8, 1.0].
C3_Proximity ==
    (PastLayerTwo /\ \E d \in PairDistances : d <= 200)
        => /\ vVerdict.is_valid = TRUE
           /\ vVerdict.validation_layer = "proximity_check"
           /\ vVerdict.proximity_distance = Least(PairDistances)
           /\ 200 * vVerdict.confidence = 200 * 1000 - Least(PairDistances) * 200
           /\ vVerdict.confidence >= 800 /\ vVerdict.confidence <= 1000

\* A proximity verdict at exactly 200 characters, confidence 0.8.
C3_Witness ==
    /\ PastLayerTwo
    /\ Least(PairDistances \cup {1000}) = 200
    /\ vVerdict.validation_layer = "proximity_check"
    /\ vVerdict.confidence = 800

\* The price phrases of the symbol, e.g. 目標價為2330元.
PricePhrases ==
    { <<"MUBIAOJIA", "WEI">> \o vSymbol \o <<"YUAN">>,
      <<"MUBIAOJIA", ":">> \o vSymbol \o <<"YUAN">>,
      <<"YUGU", "MUBIAOJIA">> \o vSymbol \o <<"YUAN">>,
      vSymbol \o <<"YUAN", "MUBIAOJIA">>,
      <<"SHENGZHI">> \o vSymbol \o <<"YUAN">> }

HasPricePhrase == \E w \in PricePhrases : Occurs(vContent, w)

\* The symbol stands in a stock-code context: "2330-TW" or "(2330-TW)".
HasCodeContext ==
    \E tw \in {"TW", "tw"} : Occurs(vContent, vSymbol \o <<"-", tw>>)

\* C4: whenever Layer 4 is reached and the text matches a false-positive
\* price pattern of the symbol, the verdict is invalid with false_positive
\* set, whether or not the symbol is also found in context and whether or
\* not the name is found.
C4_PriceVeto ==
    (PastLayerThree /\ HasPricePhrase)
        => /\ vVerdict.is_valid = FALSE
           /\ vVerdict.false_positive = TRUE
           /\ vVerdict.validation_layer = "price_detection"

\* A price veto on a page that also holds the symbol in context and the name.
C4_Witness ==
    /\ PastLayerThree /\ HasPricePhrase /\ HasCodeContext
    /\ vVerdict.validation_layer = "price_detection"
    /\ vVerdict.false_positive = TRUE

\* A price veto on a page that holds the name as well.
C4_WitnessName ==
    /\ PastLayerThree /\ HasPricePhrase /\ Occurs(vContent, vName)
    /\ vVerdict.validation_layer = "price_detection"

\* C8: an exception raised inside _validate_content is not propagated: the
\* call returns a verdict with is_valid false, confidence 0 and
\* validation_layer "error".
C8_FaultsBecomeVerdicts ==
    (vPc = "done" /\ vRaised)
        => /\ vVerdict.is_valid = FALSE
           /\ vVerdict.confidence = 0
           /\ vVerdict.validation_layer = "error"

\* A name that is no regular expression has produced an error verdict.
C8_Witness ==
    /\ vPc = "done" /\ vRaised /\ vContentIsStr
    /\ vName = <<"Lianfa", "(">>
    /\ vVerdict.validation_layer = "error"

(***************************************************************************)
(* Claims about _extract_content_date_for_metadata, checked under          *)
(* SpecDate.  What a claim says about a page is read off the page.         *)
(***************************************************************************)

DeDone == dePc = "done"

\* The structured publish-time forms, in the order the function tries them:
\* the attribute or field and the way the date after it is written.
StructuredForms ==
    << <<"META_PUB", SlashDates>>, <<"META_PUB", DashDates>>,
       <<"META_PUBDATE", DashDates>>,
       <<"LD_PUB", DashDates>>, <<"LD_PUB", SlashDates>>, <<"LD_PUB", CnDates>> >>

\* Where form k occurs in a text.
StructuredAt(text, k) ==
    { i \in 1..(Len(text) - 1) :
        text[i] = StructuredForms[k][1] /\ text[i + 1] \in StructuredForms[k][2] }

\* The date lexeme is a date of the calendar within 2020..2030.
PassesValidation(t) ==
    LET g == DateGroups(t) IN
    C7_RealDateInRange(Num(IntOf(g[1])), Num(IntOf(g[2])), Num(IntOf(g[3])))

\* The date lexeme as "YYYY/MM/DD".
Written(t) == LET g == DateGroups(t) IN <<g[1], IntOf(g[2]), IntOf(g[3])>>

\* The page without a leading "---" ... "---" block and the blanks around
\* what is left.
BodyOf(page) ==
    LET closing == IF Len(page) >= 1 /\ page[1] = "YAML"
                   THEN { j \in 2..Len(page) : page[j] = "YAML" } ELSE {}
    IN IF closing = {} THEN page
       ELSE LET close == CHOOSE m \in closing : \A n \in closing : m <= n
                inked == { j \in (close + 1)..Len(page) : page[j] \notin {" ", "NL"} }
            IN IF inked = {} THEN <<>>
               ELSE SubSeq(page, CHOOSE m \in inked : \A n \in inked : m <= n,
                                 CHOOSE m \in inked : \A n \in inked : m >= n)

\* The forms whose first occurrence in the text carries a date that passes
\* validation.
LeadingForms(text) ==
    { k \in 1..Len(StructuredForms) :
        /\ StructuredAt(text, k) # {}
        /\ PassesValidation(text[(CHOOSE m \in StructuredAt(text, k) :
                                    \A n \in StructuredAt(text, k) : m <= n) + 1]) }

\* The date after the first occurrence of form k.
LeadingDate(text, k) ==
    text[(CHOOSE m \in StructuredAt(text, k) : \A n \in StructuredAt(text, k) : m <= n) + 1]

\* The validated structured dates anywhere in a text.
StructuredAnywhere(text) ==
    { i \in 1..(Len(text) - 1) :
        /\ \E k \in 1..Len(StructuredForms) : i \in StructuredAt(text, k)
        /\ PassesValidation(text[i + 1]) }

\* C5 as the specification states it: a validated structured publish-time
\* match anywhere in the page text is returned and the cascade contributes
\* nothing.
C5_AsStated ==
    (DeDone /\ StructuredAnywhere(deContent) # {})
        => /\ deFoundDates = <<>>
           /\ \E i \in StructuredAnywhere(deContent) : deResult = Written(deContent[i + 1])

\* C5: in the text left after a leading "---" block is stripped, when the
\* first occurrence of some structured publish-time form carries a date
\* that passes validation, the call returns the date of the first such form
\* in the order of the forms, as "YYYY/MM/DD", and the cascade pass
\* contributes nothing, whatever plain-text dates the text holds.
C5_StructuredMetadataWins ==
    DeDone =>
        LET body == BodyOf(deContent)
            forms == LeadingForms(body)
        IN forms # {}
             => /\ deFoundDates = <<>>
                /\ deResult = Written(LeadingDate(body,
                                  CHOOSE k \in forms : \A l \in forms : k <= l))

\* A structured date has been returned from a page that opens with another,
\* valid plain-text date.
C5_Witness ==
    /\ DeDone
    /\ LeadingForms(BodyOf(deContent)) # {}
    /\ deContent[1] \in DashDates /\ PassesValidation(deContent[1])
    /\ deResult # <<>> /\ deResult # Written(deContent[1])
    /\ deFoundDates = <<>>

\* The plain-text dates of a text that pass validation.
ValidDatesIn(text) ==
    { i \in 1..Len(text) :
        text[i] \in DashDates \cup SlashDates \cup CnDates /\ PassesValidation(text[i]) }

\* C6: when the priority pass finds nothing, the call returns the date of
\* the candidate with the highest confidence, of the candidates with that
\* confidence the one discovered first (candidates are discovered in the
\* order of the pattern index), and it returns the empty string exactly
\* when no date of the text passes validation.
C6_CascadeSelection ==
    (DeDone /\ LeadingForms(BodyOf(deContent)) = {})
        => /\ (deResult = <<>>) <=> (ValidDatesIn(BodyOf(deContent)) = {})
           /\ (deFoundDates = <<>>) <=> (ValidDatesIn(BodyOf(deContent)) = {})
           /\ \A i, j \in 1..Len(deFoundDates) :
                i < j => deFoundDates[i].pattern_index <= deFoundDates[j].pattern_index
           /\ deFoundDates # <<>>
                => \E i \in 1..Len(deFoundDates) :
                     /\ deResult = deFoundDates[i].date
                     /\ \A j \in 1..Len(deFoundDates) :
                          /\ deFoundDates[j].confidence <= deFoundDates[i].confidence
                          /\ j < i => deFoundDates[j].confidence < deFoundDates[i].confidence

\* Two candidates with different dates share the highest confidence and the
\* one discovered first has been returned.
C6_Witness ==
    /\ DeDone /\ LeadingForms(BodyOf(deContent)) = {}
    /\ \E i, j \in 1..Len(deFoundDates) :
         /\ i < j
         /\ deFoundDates[i].confidence = deFoundDates[j].confidence
         /\ deFoundDates[i].date # deFoundDates[j].date
         /\ \A l \in 1..Len(deFoundDates) :
              deFoundDates[l].confidence <= deFoundDates[i].confidence
         /\ \A l \in 1..(i - 1) : deFoundDates[l].confidence < deFoundDates[i].confidence
         /\ deResult = deFoundDates[i].date

\* The candidate returned is not the one discovered first.
C6_WitnessLater ==
    /\ DeDone /\ LeadingForms(BodyOf(deContent)) = {}
    /\ Len(deFoundDates) >= 2
    /\ deResult # deFoundDates[1].date

(***************************************************************************)
(* Claims about search_comprehensive, checked under SpecSearch.            *)
(***************************************************************************)

\* The loops have been entered and the results are as many as asked for.
TargetReached ==
    /\ sPc \in {"search", "items", "return", "done"}
    /\ sTargetCount.finite
    /\ Len(sResults) >= sTargetCount.val

\* C9 as the specification states it: for every targetCount, once the
\* number of accumulated results is >= targetCount, no step issues a search
\* API call or processes a hit.
C9_AsStated == [][TargetReached => ~(SSearch \/ SProcess)]_vars

\* C9 for a targetCount of one or more: once the results are that many, no
\* step issues a search API call or processes a hit.
C9_EarlyStopFromOne ==
    [][(TargetReached /\ sTargetCount.val >= 1) => ~(SSearch \/ SProcess)]_vars

\* A call with a targetCount of zero is about to issue its first query.
C9_ZeroStillSearches ==
    /\ sTargetCount = Finite(0) /\ sResults = <<>> /\ sPc = "search"
    /\ sCategory = 1 /\ sPattern = 1

\* A call for two results is at its return with two results and queries
\* left untried.
C9_Witness ==
    /\ sPc = "return" /\ sTargetCount = Finite(2) /\ Len(sResults) = 2
    /\ sCategory = 1 /\ sPattern = 2

\* The targetCount a count argument asks for: 0 stands for no limit.
Unlimited == [limited |-> FALSE, n |-> 0]
Limited(n) == [limited |-> TRUE, n |-> n]

Requested ==
    IF ~sCount.isStr THEN Limited(sCount.int)
    ELSE IF sCount.str = "1" THEN Limited(1)
    ELSE Unlimited

ReturnedUrls == [i \in 1..Len(sReturned) |-> sReturned[i].url]

\* Category order, then pattern order, then the order of the items.
DiscoveredBefore(u, v) ==
    \/ u[1] < v[1]
    \/ u[1] = v[1] /\ u[2] < v[2]
    \/ u[1] = v[1] /\ u[2] = v[2] /\ u[3] < v[3]

\* C10: search_comprehensive returns at most targetCount results (all the
\* qualifying hits when targetCount is "all"), exactly targetCount when at
\* least that many of the hits received qualify, and the list returned is a
\* prefix of the qualifying hits in discovery order: category order, then
\* pattern order, then the order of the items of a response.
C10_BoundedOrderedOutput ==
    sPc = "done" =>
        /\ Requested.limited => Len(sReturned) <= Requested.n
        /\ (Requested.limited /\ Len(sOffered) >= Requested.n)
               => Len(sReturned) = Requested.n
        /\ ~Requested.limited => ReturnedUrls = sOffered
        /\ Len(sReturned) <= Len(sOffered)
        /\ ReturnedUrls = SubSeq(sOffered, 1, Len(sReturned))
        /\ \A i, j \in 1..Len(sOffered) :
             i < j => DiscoveredBefore(sOffered[i], sOffered[j])
        /\ \A i \in 1..Len(sReturned) : sReturned[i].quality_score.val >= sMinQuality

\* Two results from two queries have been returned to a call for two, out
\* of three qualifying hits received.
C10_Witness ==
    /\ sPc = "done" /\ sCount = IntCount(2)
    /\ Len(sReturned) = 2 /\ Len(sOffered) = 3
    /\ sReturned[1].url[2] # sReturned[2].url[2]

\* C11 as the specification states it: for every minQuality, every result
\* returned by search_comprehensive has content_validation.is_valid true and
\* quality_score >= minQuality.
C11_AsStated ==
    sPc = "done" =>
        \A i \in 1..Len(sReturned) :
            /\ sReturned[i].is_valid
            /\ sReturned[i].quality_score.val >= sMinQuality

\* C11 for a minQuality above zero: every result returned has passed
\* validation and has a quality_score of minQuality or more.
C11_FloorAboveZero ==
    (sPc = "done" /\ sMinQuality > 0) =>
        \A i \in 1..Len(sReturned) :
            /\ sReturned[i].is_valid
            /\ sReturned[i].quality_score.val >= sMinQuality

\* A page that failed validation has been returned, with its score of 0, by
\* a call whose minQuality is 0.
C11_InvalidReturned ==
    /\ sPc = "done" /\ sMinQuality = 0
    /\ \E i \in 1..Len(sReturned) :
         ~sReturned[i].is_valid /\ sReturned[i].quality_score = Num(0)

\* A call with minQuality 4 has received a hit that failed validation and
\* returned only the hit after it.
C11_Witness ==
    /\ sPc = "done" /\ sMinQuality = 4 /\ sCount = StrCount("all")
    /\ Len(sReturned) = 1 /\ sReturned[1].url = UrlOf(1, 1, 2) /\ sReturned[1].is_valid

\* A later query exists after the one the loops stand at.
LaterPattern ==
    sPattern < Len(AllPatterns[sCategory].patterns) \/ sCategory < Len(AllPatterns)

\* The loops stand at the query after the one of the unprimed state.
AtNextPattern ==
    IF sPattern < Len(AllPatterns[sCategory].patterns)
    THEN sCategory' = sCategory /\ sPattern' = sPattern + 1
    ELSE sCategory' = sCategory + 1 /\ sPattern' = 1

\* A search call that gives no items (it raised, or returned nothing) while
\* results are still wanted leaves the results as they are and is followed
\* by the next query, or by the return when it was the last one.
FailedSearchSkipsOnePattern ==
    (sPc = "search" /\ sPc' # "items" /\ ~TargetReached)
        => /\ sResults' = sResults
           /\ IF LaterPattern THEN sPc' = "search" /\ AtNextPattern ELSE sPc' = "return"

\* A hit whose page cannot be fetched adds no result and is followed by the
\* next hit of the response, when there is one.
FailedFetchSkipsOneHit ==
    (sPc = "items" /\ sItems[sItem].linked /\ ~Fetches(sItems[sItem]))
        => /\ sResults' = sResults
           /\ sItem < Len(sItems)
                => sPc' = "items" /\ sItem' = sItem + 1 /\ sItems' = sItems

\* No exception leaves search_comprehensive, and a call in which no fetch
\* succeeded returns the empty list.
NothingRaisedNothingFetched ==
    /\ sPc # "raised"
    /\ (sPc = "done" /\ ~sFetched) => sReturned = <<>>

\* C12: whatever the search API and the page fetch do (raise, return
\* nothing, answer with an error status), search_comprehensive terminates
\* and returns a list without raising; a failed search call skips only its
\* pattern and the later patterns are still issued, a failed fetch skips
\* only its hit and the later hits are still processed, and when every
\* fetch fails the list returned is empty.
C12_NonFatalDegradation ==
    /\ []NothingRaisedNothingFetched
    /\ [][FailedSearchSkipsOnePattern]_vars
    /\ [][FailedFetchSkipsOneHit]_vars
    /\ <>(sPc = "done")

\* A call has returned the one result it found: the second hit of the
\* third query, after two queries that gave no result and after a first
\* hit whose fetch raised.
C12_Witness ==
    /\ sPc = "done" /\ sCount = StrCount("all") /\ sMinQuality = 0
    /\ Len(sReturned) = 1 /\ sReturned[1].url = UrlOf(1, 3, 2)
    /\ sReturned[1].quality_score = Num(3)

\* Every fetch of a call that received hits has failed and the call has
\* returned the empty list.
C12_WitnessNoFetch ==
    /\ sPc = "done" /\ ~sFetched /\ sReturned = <<>>
    /\ sCategory = Len(AllPatterns)

(***************************************************************************)
(* Claims about save_md_file and generate_md_file_with_md_date, checked    *)
(* under SpecStore (calls one after the other) and SpecStoreParallel       *)
(* (calls side by side).                                                   *)
(***************************************************************************)

\* A save under a name that was there before the call writes nothing and
\* returns the path of the file.
LaterSaveSkipped ==
    stLast.existed => ~stLast.wrote /\ stLast.returned = PathOf(stLast.filename)

\* C13 as the specification states it: the bytes of every file of the
\* directory are those of the first successful write under its filename and
\* never change, and a later save with the same filename performs no write
\* and returns the existing path.
C13_AsStated ==
    /\ \A f \in DOMAIN stFiles :
         stFiles[f].exists
            => stFirst[f] # NoDocument /\ stFiles[f] = WholeFile(stFirst[f])
    /\ LaterSaveSkipped

\* C13 for the names that have had a successful write: the file holds the
\* bytes of the first of them; and no call changes a file that exists.
C13_WriteOnceAfterSuccess ==
    /\ [](\A f \in DOMAIN stFiles :
            stFirst[f] # NoDocument => stFiles[f] = WholeFile(stFirst[f]))
    /\ []LaterSaveSkipped
    /\ [][\A f \in DOMAIN stFiles : stFiles[f].exists => stFiles'[f] = stFiles[f]]_vars

\* A write has failed after the file was created; the next save under the
\* name, of another document, was skipped and returned the path of the
\* broken file.
C13_BrokenFileKept ==
    /\ stLast.existed /\ stLast.returned = PathOf(stLast.filename)
    /\ stFiles[stLast.filename] # WholeFile(stLast.content)
    /\ ~stFiles[stLast.filename].complete
    /\ stFirst[stLast.filename] = NoDocument

\* A document rebuilt from the same content, url, title and md_date with
\* another extracted_date has been saved again: nothing was written and the
\* file holds the first document.
C13_Witness ==
    /\ stLast.existed /\ ~stLast.wrote
    /\ stFiles[stLast.filename] = WholeFile(stFirst[stLast.filename])
    /\ stLast.content.content = stFirst[stLast.filename].content
    /\ stLast.content.metadata.url = stFirst[stLast.filename].metadata.url
    /\ stLast.content.metadata.extracted_date
         # stFirst[stLast.filename].metadata.extracted_date

\* The callers that have opened a name for writing.
WritersOf(f) == { p \in Callers : stCaller[p].filename = f /\ stCaller[p].opened }

\* C17 as the specification states it: when save_md_file calls for one
\* filename run side by side, at most one caller performs the write, and
\* every other caller skips it and reports the path of the file.
C17_AsStated ==
    \A f \in Filenames : Cardinality(WritersOf(f)) <= 1 /\ stWrites[f] <= 1

\* Two callers have both written the same name, each its own document.
C17_TwoWriters ==
    \E p, q \in Callers :
        /\ p # q
        /\ stCaller[p].filename = stCaller[q].filename
        /\ stCaller[p].wrote /\ stCaller[q].wrote
        /\ stCaller[p].content # stCaller[q].content

\* A caller that returns a path without having opened the file found the
\* file in the directory.
C17_LateCallerSkips ==
    \A p \in Callers :
        (stCaller[p].pc = "done" /\ ~stCaller[p].opened /\ stCaller[p].returned # NoPath)
            => /\ stFiles[stCaller[p].filename].exists
               /\ stCaller[p].returned = PathOf(stCaller[p].filename)

\* ---------------------------------------------------------------------
\* C14  (SpecValidate)

\* The whitespace-delimited tokens of the name, as index ranges.
NameTokens ==
    { r \in (1..Len(vName)) \X (1..Len(vName)) :
        /\ r[1] <= r[2]
        /\ \A k \in r[1]..r[2] : vName[k] \notin {" ", "NL"}
        /\ (r[1] = 1 \/ vName[r[1] - 1] \in {" ", "NL"})
        /\ (r[2] = Len(vName) \/ vName[r[2] + 1] \in {" ", "NL"}) }

\* The tokens longer than one character that occur in the text.
TokensInText ==
    { r \in NameTokens :
        /\ SpanLen(vName, r[1], r[2]) > 1
        /\ Occurs(FoldCase(vContent), FoldCase(SubSeq(vName, r[1], r[2]))) }

TokensNeeded ==
    IF Cardinality(NameTokens) \div 2 > 1 THEN Cardinality(NameTokens) \div 2 ELSE 1

NameInText == Cardinality(TokensInText) >= TokensNeeded

SymbolInText == Occurs(FoldCase(vContent), FoldCase(vSymbol))

ReachedFallback == VDone /\ ~vRaised /\ vVerdict.validation_layer = "fallback"

\* C14: when Layer 4 is reached and no price pattern matches, the verdict
\* comes from the fallback layer with confidence = (0.5 if a
\* symbol-in-context pattern matches, else 0.2 if the symbol is a substring
\* of the text, else 0) + (0.3 if the name is found), the name being found
\* iff at least max(1, floor(tokens / 2)) whitespace-delimited name tokens
\* of length > 1 occur in the text; the verdict is valid iff (symbol in
\* context or symbol substring present) and name found and confidence >= 0.7.
C14_FallbackRule ==
    (PastLayerThree /\ ~HasPricePhrase) =>
        /\ vVerdict.validation_layer = "fallback"
        /\ vVerdict.name_found = NameInText
        /\ vVerdict.symbol_found = (vVerdict.symbol_in_context \/ SymbolInText)
        /\ HasCodeContext => vVerdict.symbol_in_context
        /\ vVerdict.symbol_in_context => SymbolInText
        /\ vVerdict.confidence =
             (IF vVerdict.symbol_in_context THEN 500
              ELSE IF SymbolInText THEN 200 ELSE 0)
             + (IF NameInText THEN 300 ELSE 0)
        /\ vVerdict.is_valid =
             ( /\ (vVerdict.symbol_in_context \/ SymbolInText)
               /\ NameInText
               /\ vVerdict.confidence >= 700 )

\* A name of four tokens, two of them of one letter, found through its two
\* long tokens beside the symbol in context: valid at 0.8.
C14_Witness ==
    /\ ReachedFallback
    /\ Cardinality(NameTokens) = 4
    /\ Cardinality(TokensInText) = 2
    /\ vVerdict.symbol_in_context
    /\ vVerdict.is_valid /\ vVerdict.confidence = 800

\* The same name with only one of its tokens in the text: not found.
C14_WitnessOneToken ==
    /\ ReachedFallback
    /\ Cardinality(NameTokens) = 4
    /\ Cardinality(TokensInText) = 1
    /\ vVerdict.symbol_in_context
    /\ ~vVerdict.is_valid /\ vVerdict.confidence = 500

\* ---------------------------------------------------------------------
\* C15, C16  (SpecDate)

\* The cascade pass has run and left candidates.
CascadeRan == DeDone /\ deFoundDates # <<>>

\* What a candidate's confidence holds apart from position: the base, the
\* bonus of its pattern index, the bonus of its year against the current
\* year, and the bonus of the source marker in the text.
ApartFromPosition(c) ==
    LET body == BodyOf(deContent)
        year == IntOf(c.date[1])
    IN 50
       + (CASE c.pattern_index = 0 -> 60
            [] c.pattern_index = 1 -> 55
            [] c.pattern_index = 2 -> 50
            [] c.pattern_index \in 3..6 -> 40
            [] OTHER -> 20)
       + (IF year = deCurrentYear THEN 15
          ELSE IF year = deCurrentYear - 1 THEN 10 ELSE 0)
       + (IF \E i \in 1..Len(body) : body[i] = "CNYES" THEN 15
          ELSE IF \E i \in 1..Len(body) : body[i] = "BYLINE" THEN 10 ELSE 0)

\* The offset at which the date of a candidate first occurs in the text, as
\* the text writes it.
FirstWritten(c) ==
    LET body == BodyOf(deContent)
        at == { i \in ValidDatesIn(body) : Written(body[i]) = c.date }
    IN SpanLen(body, 1, (CHOOSE m \in at : \A n \in at : m <= n) - 1)

\* The bonus the offset of the date earns: +2.0 below 10% of the length of
\* the text, +1.0 from 10% to below 30%, nothing from there on.
BonusAtOffset(offset) ==
    LET length == SpanLen(BodyOf(deContent), 1, Len(BodyOf(deContent))) IN
    IF offset * 10 < length THEN 20
    ELSE IF offset * 10 < length * 3 THEN 10 ELSE 0

\* C15 as the specification states it: a cascade candidate whose matched
\* date first occurs at an offset below 10% of the stripped text length
\* receives +2.0, one whose first occurrence is at or above 10% but below
\* 30% receives +1.0, and any other candidate receives no positional bonus.
C15_AsStated ==
    CascadeRan =>
        \A k \in 1..Len(deFoundDates) :
            deFoundDates[k].confidence
                = ApartFromPosition(deFoundDates[k])
                  + BonusAtOffset(FirstWritten(deFoundDates[k]))

\* The text holds no run of eight digits that spells a date.
NoCompactDate ==
    \A i \in 1..Len(BodyOf(deContent)) : BodyOf(deContent)[i] \notin CompactDates

\* What the function does instead: a text without the year, month and day of
\* a date written together as one run of digits earns no candidate a
\* positional bonus, wherever its dates stand.
C15_NoBonusWithoutDigitRun ==
    (CascadeRan /\ NoCompactDate) =>
        \A k \in 1..Len(deFoundDates) :
            deFoundDates[k].confidence = ApartFromPosition(deFoundDates[k])

\* A candidate whose date opens the text has received no positional bonus.
C15_OpeningDateUnrewarded ==
    /\ CascadeRan /\ NoCompactDate
    /\ \E k \in 1..Len(deFoundDates) :
         /\ FirstWritten(deFoundDates[k]) = 0
         /\ deFoundDates[k].confidence = ApartFromPosition(deFoundDates[k])

\* C16: every cascade candidate's confidence contains base 5.0, plus the
\* pattern-priority bonus of its pattern index alone (6.0 for index 0, 5.5
\* for 1, 5.0 for 2, 4.0 for 3 to 6, 2.0 for 7 and above), plus the recency
\* bonus (+1.5 for the current year, +1.0 for the previous year, else 0),
\* plus the source bonus (+1.5 with "cnyes.com" in the text, otherwise +1.0
\* with the secondary marker, otherwise 0, never both); what is left over
\* is the positional bonus, one of 0, 1.0 and 2.0.
C16_ArithmeticApartFromPosition ==
    CascadeRan =>
        \A k \in 1..Len(deFoundDates) :
            /\ deFoundDates[k].confidence - ApartFromPosition(deFoundDates[k]) \in {0, 10, 20}
            /\ NoCompactDate
                 => deFoundDates[k].confidence = ApartFromPosition(deFoundDates[k])

\* A text with both source markers has given a candidate of the current
\* year the trusted-source bonus alone, beside a candidate of another
\* pattern index and another year.
C16_Witness ==
    /\ CascadeRan /\ NoCompactDate
    /\ \E i, j \in 1..Len(BodyOf(deContent)) :
         BodyOf(deContent)[i] = "CNYES" /\ BodyOf(deContent)[j] = "BYLINE"
    /\ \E k \in 1..Len(deFoundDates) :
         /\ deFoundDates[k].pattern_index >= 7
         /\ IntOf(deFoundDates[k].date[1]) = deCurrentYear
         /\ deFoundDates[k].confidence = 100

\* Candidates of a high and of a low pattern index, one of the previous
\* year, in a text with the secondary marker only.
C16_WitnessSecondary ==
    /\ CascadeRan
    /\ \E i \in 1..Len(BodyOf(deContent)) : BodyOf(deContent)[i] = "BYLINE"
    /\ \A i \in 1..Len(BodyOf(deContent)) : BodyOf(deContent)[i] # "CNYES"
    /\ \E k, l \in 1..Len(deFoundDates) :
         /\ deFoundDates[k].pattern_index <= 2
         /\ deFoundDates[l].pattern_index >= 7
         /\ IntOf(deFoundDates[l].date[1]) = deCurrentYear - 1

\* ---------------------------------------------------------------------
\* C18  (SpecValidate)

\* A verdict has been returned, with validation enabled, whatever happened
\* inside the call.
Returned == vPc = "done" /\ EnableContentValidation

\* C18: a valid verdict has confidence >= 0.8: exactly 1.2 from
\* combined_pattern, within [0.8, 1.0] from proximity_check, exactly 0.8
\* from fallback; a verdict from title_check, price_detection or error is
\* invalid with confidence 0; a fallback verdict is valid iff a
\* symbol-in-context pattern matched and the name was found, and a bare
\* symbol substring with the name found (confidence 0.5) is never valid.
C18_VerdictConfidence ==
    Returned =>
        /\ vVerdict.validation_layer \in
             {"title_check", "combined_pattern", "proximity_check",
              "price_detection", "fallback", "error"}
        /\ vVerdict.is_valid => vVerdict.confidence >= 800
        /\ vVerdict.validation_layer = "combined_pattern"
             => vVerdict.is_valid /\ vVerdict.confidence = 1200
        /\ vVerdict.validation_layer = "proximity_check"
             => /\ vVerdict.is_valid
                /\ vVerdict.confidence >= 800 /\ vVerdict.confidence <= 1000
        /\ vVerdict.validation_layer \in {"title_check", "price_detection", "error"}
             => ~vVerdict.is_valid /\ vVerdict.confidence = 0
        /\ vVerdict.validation_layer = "fallback"
             => /\ vVerdict.is_valid => vVerdict.confidence = 800
                /\ vVerdict.is_valid = (vVerdict.symbol_in_context /\ NameInText)
                /\ (~vVerdict.symbol_in_context /\ SymbolInText /\ NameInText)
                     => ~vVerdict.is_valid /\ vVerdict.confidence = 500

\* The symbol stands in the text outside every code context and the name
\* is found: confidence 0.5, not valid.
C18_Witness ==
    /\ Returned /\ vVerdict.validation_layer = "fallback"
    /\ ~vVerdict.symbol_in_context /\ ~HasCodeContext
    /\ SymbolInText /\ NameInText
    /\ ~vVerdict.is_valid /\ vVerdict.confidence = 500

\* A proximity verdict at the far end of the window: valid at exactly 0.8.
C18_WitnessProximityFloor ==
    /\ Returned /\ vVerdict.validation_layer = "proximity_check"
    /\ vVerdict.is_valid /\ vVerdict.confidence = 800

\* A verdict of the error layer.
C18_WitnessError ==
    /\ Returned /\ vRaised /\ vVerdict.validation_layer = "error"
    /\ ~vVerdict.is_valid /\ vVerdict.confidence = 0

=============================================================================
